---- MODULE Spec2Model ----
(***************************************************************************)
(* RAG server of research_helper: document ingestion, batch storage and    *)
(* document-to-document / text similarity search.                          *)
(*                                                                         *)
(*   backend/rag_server/main.py                         HTTP endpoints     *)
(*   backend/rag_server/service/document_service.py     DocumentService    *)
(*   backend/rag_server/repository/document_repository.py                  *)
(*                                                      DocumentRepository *)
(*                                                                         *)
(* Every handler runs to completion inside one request; an action is one   *)
(* whole handler.  `req` holds the request and the behaviour of the        *)
(* collaborators during it, `resp` what the handler answered, `calls` the  *)
(* calls it made on its collaborators, `store` the vector store, `app`     *)
(* the lifespan of the RAG server.                                         *)
(*                                                                         *)
(* Central server:                                                         *)
(*                                                                         *)
(*   backend/central_server/routers/visualization.py, crud/visualization.py*)
(*   backend/central_server/services/authentication_service.py             *)
(*   backend/central_server/core/redis_config.py                           *)
(*   backend/central_server/routers/users.py                               *)
(*                                                                         *)
(* `visualization` is the table of visualization states with their views,  *)
(* `redis` the key-value store, `redis_client` the module-level client,    *)
(* `mailbox` the verification tokens sent out by e-mail and `users` the    *)
(* table of users.                                                         *)
(***************************************************************************)
EXTENDS Integers, Sequences, FiniteSets, TLC

VARIABLES store, settings, req, resp, calls, temp_files, app,
          visualization, redis, redis_client, mailbox, users

vars == <<store, settings, req, resp, calls, temp_files, app,
          visualization, redis, redis_client, mailbox, users>>

(* The state of the RAG server and the state of the central server. *)
rag == <<store, settings, temp_files, app>>
central == <<visualization, redis, redis_client, mailbox, users>>

(* The RAG server after a startup that succeeded. *)
Serving ==
    [phase |-> "serving", exc |-> "none",
     calls |-> <<"connect", "ensure_collection_exists">>]

(* The central server before any of its requests. *)
CentralAtRest ==
    /\ visualization = {}
    /\ redis = <<>>
    /\ redis_client = <<>>
    /\ mailbox = {}
    /\ users = <<>>

----------------------------------------------------------------------------
(* Bounds of the model. *)

MaxLimit == 2
MaxCandidates == 5
MaxStore == 3
MaxChunks == 3
MaxViewCount == 2
MaxTokens == 2

(* Python values. An Optional number is <<>> (None) or <<v>>. *)
None == <<>>
Some(v) == <<v>>
Val(o) == o[1]

Range(s) == {s[i] : i \in DOMAIN s}
Min(a, b) == IF a < b THEN a ELSE b
Abs(a) == IF a < 0 THEN -a ELSE a

(* Floats are fixed point, in tenths: One is the literal 1.0. *)
One == 10

Titles == {"A", "B", "C", "D"}

----------------------------------------------------------------------------
(* DocumentService.search_by_document_id, step 4 and 5: document diversity *)
(* filtering of the ranked candidates.                                     *)

DefaultDocLimit == 5

(* `limit or 5`: None and 0 are both falsy. A limit is written 0 for both. *)
EffectiveLimit(limit) == IF limit = 0 THEN DefaultDocLimit ELSE limit

FetchLimit(limit) == EffectiveLimit(limit) * 4

(* The first loop: walk the candidates in rank order; a title not yet      *)
(* grouped opens a group only while fewer than `limit or 5` groups exist;  *)
(* a candidate of a grouped title is appended to its group.                *)
GroupStepCapOff(acc, res, limit) ==
    LET isNew == res.title \notin DOMAIN acc.title_to_chunks
        open == isNew /\ Len(acc.unique_titles) <= EffectiveLimit(limit)
        opened == IF open
                  THEN [unique_titles |-> Append(acc.unique_titles, res.title),
                        title_to_chunks |-> (res.title :> <<>>) @@ acc.title_to_chunks]
                  ELSE acc
    IN  IF res.title \in DOMAIN opened.title_to_chunks
        THEN [opened EXCEPT !.title_to_chunks[res.title] = Append(@, res)]
        ELSE opened

GroupStep(acc, res, limit) ==
    LET isNew == res.title \notin DOMAIN acc.title_to_chunks
        open == isNew /\ Len(acc.unique_titles) < EffectiveLimit(limit)
        opened == IF open
                  THEN [unique_titles |-> Append(acc.unique_titles, res.title),
                        title_to_chunks |-> (res.title :> <<>>) @@ acc.title_to_chunks]
                  ELSE acc
    IN  IF res.title \in DOMAIN opened.title_to_chunks
        THEN [opened EXCEPT !.title_to_chunks[res.title] = Append(@, res)]
        ELSE opened

RECURSIVE GroupByTitle(_, _, _, _)
GroupByTitle(raw_results, i, limit, acc) ==
    IF i > Len(raw_results) THEN acc
    ELSE GroupByTitle(raw_results, i + 1, limit, GroupStep(acc, raw_results[i], limit))

EmptyGroups == [unique_titles |-> <<>>, title_to_chunks |-> <<>>]

(* The second loop: the candidates of a grouped title, in rank order. *)
RECURSIVE FlattenOnePerTitle(_, _, _, _)
FlattenOnePerTitle(raw_results, i, title_to_chunks, final_results) ==
    IF i > Len(raw_results) THEN final_results
    ELSE FlattenOnePerTitle(raw_results, i + 1, title_to_chunks,
            IF /\ raw_results[i].title \in DOMAIN title_to_chunks
               /\ raw_results[i] = title_to_chunks[raw_results[i].title][1]
            THEN Append(final_results, raw_results[i])
            ELSE final_results)

RECURSIVE Flatten(_, _, _, _)
Flatten(raw_results, i, title_to_chunks, final_results) ==
    IF i > Len(raw_results) THEN final_results
    ELSE Flatten(raw_results, i + 1, title_to_chunks,
            IF raw_results[i].title \in DOMAIN title_to_chunks
            THEN Append(final_results, raw_results[i])
            ELSE final_results)

DiversityFilter(raw_results, limit) ==
    LET groups == GroupByTitle(raw_results, 1, limit, EmptyGroups)
    IN  [unique_titles |-> groups.unique_titles,
         final_results |-> Flatten(raw_results, 1, groups.title_to_chunks, <<>>)]

----------------------------------------------------------------------------
(* The diversity filter on its own: the ranked candidate list is any list  *)
(* a vector search for 4 x limit candidates can return.                    *)

Limits == 0..MaxLimit

CandidateLists(limit) ==
    UNION {[1..n -> Titles] : n \in 0..Min(FetchLimit(limit), MaxCandidates)}

(* A candidate is a search result: its title and its rank in the list. *)
Candidates(titles) == [i \in DOMAIN titles |-> [title |-> titles[i], rank |-> i]]

InitDiversity ==
    /\ store = <<>>
    /\ settings \in [DEFAULT_SEARCH_LIMIT : {1}, DEFAULT_SIMILARITY_THRESHOLD : {7}]
    /\ temp_files = {}
    /\ app = Serving
    /\ CentralAtRest
    /\ calls = <<>>
    /\ resp = [status |-> "pending"]
    /\ \E limit \in Limits, query_title \in Titles :
         \E titles \in CandidateLists(limit) :
            req = [op |-> "diversity_filter", limit |-> limit,
                   query_title |-> query_title,
                   raw_results |-> Candidates(titles)]

ApplyDiversityFilter ==
    /\ req.op = "diversity_filter"
    /\ resp.status = "pending"
    /\ LET out == DiversityFilter(req.raw_results, req.limit)
       IN  resp' = [status |-> "returned",
                    unique_titles |-> out.unique_titles,
                    final_results |-> out.final_results]
    /\ UNCHANGED <<store, settings, req, calls, temp_files>>
    /\ UNCHANGED <<app, central>>

NextDiversity == ApplyDiversityFilter

SpecDiversity == InitDiversity /\ [][NextDiversity]_vars

TitlesOf(results) == {results[i].title : i \in DOMAIN results}

FilterReturned == req.op = "diversity_filter" /\ resp.status = "returned"

(* C1: for every limit >= 1 the chunks returned by the diversity filter of  *)
(* search_by_document_id carry at most `limit` distinct titles; the         *)
(* reference document's own title is not excluded from them.                *)
C1_AtMostLimitTitles ==
    (FilterReturned /\ req.limit >= 1)
        => Cardinality(TitlesOf(resp.final_results)) <= req.limit

C1_Witness ==
    /\ FilterReturned
    /\ req.limit >= 1
    /\ Cardinality(TitlesOf(req.raw_results)) > req.limit
    /\ Cardinality(TitlesOf(resp.final_results)) = req.limit
    /\ req.query_title \in TitlesOf(resp.final_results)

(* The first `limit` distinct titles met in rank order: a title is one of   *)
(* them when fewer than `limit` other titles occur before its first chunk.  *)
FirstRank(raw_results, t) ==
    CHOOSE i \in DOMAIN raw_results :
        /\ raw_results[i].title = t
        /\ \A j \in 1..(i - 1) : raw_results[j].title # t

AcceptedTitles(raw_results, limit) ==
    {t \in TitlesOf(raw_results) :
        Cardinality({raw_results[j].title : j \in 1..(FirstRank(raw_results, t) - 1)})
            < limit}

(* C2: the result is exactly the subsequence of the ranked candidates whose *)
(* title is among the first `limit` distinct titles in rank order: every    *)
(* chunk of an accepted title is kept, every other chunk is dropped, and    *)
(* the rank order is unchanged.                                             *)
C2_ExactSubsequence ==
    (FilterReturned /\ req.limit >= 1)
        => resp.final_results =
             SelectSeq(req.raw_results,
                       LAMBDA res : res.title \in AcceptedTitles(req.raw_results, req.limit))

(* A chunk of an accepted title ranked after the cap was reached is kept,   *)
(* and a chunk of a title met after the cap is dropped.                     *)
C2_Witness ==
    /\ FilterReturned
    /\ req.limit >= 1
    /\ Len(resp.final_results) < Len(req.raw_results)
    /\ \E i, j \in DOMAIN req.raw_results :
         /\ i < j
         /\ req.raw_results[i].title \notin AcceptedTitles(req.raw_results, req.limit)
         /\ req.raw_results[j] \in Range(resp.final_results)
         /\ \E k \in 1..(j - 1) : req.raw_results[k].title = req.raw_results[j].title

----------------------------------------------------------------------------
(* The vector store (a Weaviate collection): the sequence of the stored    *)
(* chunk objects in creation order. An object's uuid is opaque; vectors    *)
(* are points of a small metric space.                                     *)

Vecs == {0, 2}
StoreTitles == {"A", "B"}

(* A text is the sequence of its runs: `count` times the character `char`. *)
Run(char, count) == [char |-> char, count |-> count]

RECURSIVE TextLen(_)
TextLen(text) == IF text = <<>> THEN 0 ELSE Head(text).count + TextLen(Tail(text))

(* text[:n] *)
RECURSIVE Slice(_, _)
Slice(text, n) ==
    IF n <= 0 \/ text = <<>> THEN <<>>
    ELSE IF Head(text).count <= n
    THEN <<Head(text)>> \o Slice(Tail(text), n - Head(text).count)
    ELSE <<Run(Head(text).char, n)>>

(* The chunks a splitter cuts: shorter than, as long as and longer than a  *)
(* preview.                                                                *)
ChunkTexts ==
    <<<<Run("p", 150)>>, <<Run("q", 199), Run("r", 2)>>, <<Run("s", 200)>>,
      <<Run("u", 500)>>, <<Run("w", 1)>>, <<Run("x", 120), Run("y", 120)>>>>

Dist(v, w) == Min(Abs(v - w) * 4, One)

Uuids(objects) == {objects[i].uuid : i \in DOMAIN objects}

ObjectById(objects, id) ==
    IF id \in Uuids(objects)
    THEN <<(CHOOSE i \in DOMAIN objects : objects[i].uuid = id)>>
    ELSE None

(* collection.query.near_vector: the objects within `distance` of the      *)
(* query vector, nearest first (equal distances in creation order), cut    *)
(* to `limit`.                                                             *)
RECURSIVE RankNearest(_, _, _)
RankNearest(objects, left, near_vector) ==
    IF left = {} THEN <<>>
    ELSE LET best == CHOOSE i \in left : \A j \in left :
                        \/ Dist(near_vector, objects[i].vector) < Dist(near_vector, objects[j].vector)
                        \/ /\ Dist(near_vector, objects[i].vector) = Dist(near_vector, objects[j].vector)
                           /\ i <= j
         IN  <<best>> \o RankNearest(objects, left \ {best}, near_vector)

near_vector_query(objects, near_vector, limit, distance) ==
    LET within == {i \in DOMAIN objects : Dist(near_vector, objects[i].vector) <= distance}
        ranked == RankNearest(objects, within, near_vector)
    IN  [k \in 1..Min(limit, Len(ranked)) |->
            [object |-> objects[ranked[k]],
             distance |-> Dist(near_vector, objects[ranked[k]].vector)]]

----------------------------------------------------------------------------
(* DocumentRepository.search_by_vector                                     *)

(* The parameters of the signature. A call that passes a keyword the       *)
(* signature does not have raises TypeError before the body runs.          *)
search_by_vector_params == {"query_vector", "limit", "distance_threshold"}

Binds(kwargs, params) == DOMAIN kwargs \subseteq params

Arg(kwargs, name) == IF name \in DOMAIN kwargs THEN kwargs[name] ELSE None

EffectiveDistance(distance_threshold) ==
    IF distance_threshold # None THEN Val(distance_threshold)
    ELSE One - settings.DEFAULT_SIMILARITY_THRESHOLD

ToSimilarityResult(hit) ==
    [title |-> hit.object.properties.title,
     content |-> hit.object.properties.content,
     authors |-> hit.object.properties.authors,
     published |-> hit.object.properties.published,
     doi |-> hit.object.properties.doi,
     similarity_score |-> One - hit.distance,
     distance |-> hit.distance,
     vector |-> hit.object.vector,
     chunk_index |-> hit.object.properties.chunk_index]

(* The outcome of a call: the exception raised ("none": it returned), the  *)
(* value returned, and the calls made on the store.                        *)
search_by_vector(kwargs, db) ==
    IF ~Binds(kwargs, search_by_vector_params)
    THEN [exc |-> "TypeError", ret |-> <<>>, calls |-> <<>>]
    ELSE LET limit == IF Arg(kwargs, "limit") = None
                      THEN settings.DEFAULT_SEARCH_LIMIT
                      ELSE Val(kwargs.limit)
             effective_distance == EffectiveDistance(Arg(kwargs, "distance_threshold"))
             hits == near_vector_query(store, kwargs.query_vector, limit, effective_distance)
         IN  IF db # "up"
             THEN [exc |-> "RuntimeError", ret |-> <<>>, calls |-> <<>>]
             ELSE [exc |-> "none",
                   ret |-> [k \in DOMAIN hits |-> ToSimilarityResult(hits[k])],
                   calls |-> <<[fn |-> "near_vector", limit |-> limit,
                                distance |-> effective_distance,
                                filters |-> {}]>>]

(* DocumentRepository.get_vector_and_title_by_id: the stored vector and    *)
(* title of the object, or None when no such object is stored.             *)
get_vector_and_title_by_id(doc_id) ==
    LET found == ObjectById(store, doc_id)
    IN  IF found = None THEN None
        ELSE <<[vector |-> store[Val(found)].vector,
                title |-> store[Val(found)].properties.title]>>

----------------------------------------------------------------------------
(* DocumentService: the two searches.                                      *)

Raised(exc, status, detail, calls_made) ==
    [exc |-> exc, status |-> status, detail |-> detail, ret |-> <<>>, calls |-> calls_made]

Returned(ret, calls_made) ==
    [exc |-> "none", status |-> 200, detail |-> "", ret |-> ret, calls |-> calls_made]

(* distance_threshold_value = (1.0 - similarity_threshold), or None. *)
DistanceThresholdValue(similarity_threshold) ==
    IF similarity_threshold # None THEN Some(One - Val(similarity_threshold)) ELSE None

CallOf(fn, kwargs) == [fn |-> fn, kwargs |-> kwargs]

search_by_document_id_no_check(doc_id, limit, similarity_threshold, db) ==
    LET result == get_vector_and_title_by_id(doc_id)
        lookup == CallOf("get_vector_and_title_by_id", [doc_id |-> doc_id])
        kwargs == [query_vector |-> IF result = None THEN 0 ELSE Val(result).vector,
                   limit |-> Some(FetchLimit(limit)),
                   distance_threshold |-> DistanceThresholdValue(similarity_threshold),
                   exclude_titles |-> None]
        raw == search_by_vector(kwargs, db)
        made == <<lookup, CallOf("search_by_vector", kwargs)>> \o raw.calls
    IN  IF raw.exc # "none"
        THEN Raised(raw.exc, 0, "", made)
        ELSE Returned(DiversityFilter(raw.ret, limit).final_results, made)

search_by_document_id(doc_id, limit, similarity_threshold, db) ==
    LET result == get_vector_and_title_by_id(doc_id)
        lookup == CallOf("get_vector_and_title_by_id", [doc_id |-> doc_id])
    IN  IF result = None
        THEN Raised("HTTPException", 404,
                    "Reference document not found or has no vector.", <<lookup>>)
        ELSE LET kwargs == [query_vector |-> Val(result).vector,
                            limit |-> Some(FetchLimit(limit)),
                            distance_threshold |-> DistanceThresholdValue(similarity_threshold),
                            exclude_titles |-> None]
                 raw == search_by_vector(kwargs, db)
                 made == <<lookup, CallOf("search_by_vector", kwargs)>> \o raw.calls
             IN  IF raw.exc # "none"
                 THEN Raised(raw.exc, 0, "", made)
                 ELSE Returned(DiversityFilter(raw.ret, limit).final_results, made)

(* embed is the embedder's behaviour on the prefixed query: it raises, or  *)
(* it returns a vector.                                                    *)
search_by_text(query_text, limit, similarity_threshold, target_titles, embed, db) ==
    IF query_text = ""
    THEN Raised("ValueError", 0, "Query text cannot be empty.", <<>>)
    ELSE LET embedding == CallOf("embed_text",
                                 [text |-> <<"user's question [SEP] ", query_text>>])
         IN  IF ~embed.ok
             THEN Raised("HTTPException", 500,
                         "Unexpected internal error during search", <<embedding>>)
             ELSE LET kwargs == [query_vector |-> embed.vector,
                                 limit |-> limit,
                                 distance_threshold |-> DistanceThresholdValue(similarity_threshold),
                                 target_titles |-> target_titles,
                                 text_query |-> query_text]
                      found == search_by_vector(kwargs, db)
                      made == <<embedding, CallOf("search_by_vector", kwargs)>> \o found.calls
                  IN  IF found.exc # "none"
                      THEN Raised("HTTPException", 500,
                                  "Unexpected internal error during search", made)
                      ELSE Returned(found.ret, made)

----------------------------------------------------------------------------
(* main.py: POST /search/similarity and POST /search                       *)

Response(status, detail, body) == [status |-> status, detail |-> detail, body |-> body]

(* Between two requests nothing is being handled. *)
Idle == [op |-> "none"]
NoResponse == [status |-> 0]

DocIds == 1..(MaxStore + 1)
Thresholds == {None, Some(0), Some(8)}
DbStates == {"up", "down"}

search_by_document_endpoint(out) ==
    IF out.exc = "none" THEN Response(200, "", out.ret)
    ELSE IF out.exc = "HTTPException" THEN Response(out.status, out.detail, <<>>)
    ELSE Response(500, "Internal error during search processing.", <<>>)

SearchByDocument ==
    /\ req = Idle
    /\ \E doc_id \in DocIds, limit \in Limits, similarity_threshold \in Thresholds,
          db \in DbStates :
          LET out == search_by_document_id(doc_id, limit, similarity_threshold, db)
          IN  /\ req' = [op |-> "search_by_document", doc_id |-> doc_id, limit |-> limit,
                         similarity_threshold |-> similarity_threshold, db |-> db]
              /\ resp' = search_by_document_endpoint(out)
              /\ calls' = out.calls
    /\ UNCHANGED <<store, settings, temp_files>>
    /\ UNCHANGED <<app, central>>

TextLimits == {None} \cup {Some(n) : n \in 1..MaxLimit}
TargetTitles == {None, <<"A">>}
EmbedBehaviours == {[ok |-> FALSE, vector |-> 0], [ok |-> TRUE, vector |-> 2]}

search_documents_endpoint(query_text, out) ==
    IF query_text = "" THEN Response(400, "query_text is required for search.", <<>>)
    ELSE IF out.exc = "none" THEN Response(200, "", out.ret)
    ELSE IF out.exc = "HTTPException" THEN Response(out.status, out.detail, <<>>)
    ELSE IF out.exc = "ValueError" THEN Response(400, out.detail, <<>>)
    ELSE Response(500, "Internal error during search processing.", <<>>)

SearchDocuments ==
    /\ req = Idle
    /\ \E query_text \in {"", "q"}, limit \in TextLimits,
          similarity_threshold \in Thresholds, target_titles \in TargetTitles,
          embed \in EmbedBehaviours, db \in DbStates :
          LET out == search_by_text(query_text, limit, similarity_threshold,
                                    target_titles, embed, db)
          IN  /\ req' = [op |-> "search_documents", query_text |-> query_text,
                         limit |-> limit, similarity_threshold |-> similarity_threshold,
                         target_titles |-> target_titles, embed |-> embed, db |-> db]
              /\ resp' = search_documents_endpoint(query_text, out)
              /\ calls' = IF query_text = "" THEN <<>> ELSE out.calls
    /\ UNCHANGED <<store, settings, temp_files>>
    /\ UNCHANGED <<app, central>>

(* The response is sent and the request is over. *)
Reply ==
    /\ req # Idle
    /\ req' = Idle
    /\ resp' = NoResponse
    /\ calls' = <<>>
    /\ UNCHANGED <<store, settings, temp_files>>
    /\ UNCHANGED <<app, central>>

(* The stores ingestion can have built: every object carries the          *)
(* properties of a chunk and a vector; chunk_index counts the earlier      *)
(* chunks of the same title.                                               *)
StoredObjects(shape) ==
    [i \in DOMAIN shape |->
        [uuid |-> i,
         properties |->
            [title |-> shape[i].title,
             content |-> ChunkTexts[i],
             authors |-> "Unknown",
             published |-> [now |-> TRUE, year |-> 0],
             doi |-> shape[i].title,
             chunk_index |-> Cardinality({j \in 1..(i - 1) : shape[j].title = shape[i].title})],
         vector |-> shape[i].vector,
         metadata |-> [creation_time |-> i]]]

StoreShapes == UNION {[1..n -> [title : StoreTitles, vector : Vecs]] : n \in 0..MaxStore}

InitSearch ==
    /\ \E shape \in StoreShapes : store = StoredObjects(shape)
    /\ settings \in [DEFAULT_SEARCH_LIMIT : {2}, DEFAULT_SIMILARITY_THRESHOLD : {5, 7}]
    /\ req = Idle
    /\ resp = NoResponse
    /\ calls = <<>>
    /\ temp_files = {}
    /\ app = Serving
    /\ CentralAtRest

NextSearch == SearchByDocument \/ SearchDocuments \/ Reply

SpecSearch == InitSearch /\ [][NextSearch]_vars

CallsTo(fn) == SelectSeq(calls, LAMBDA c : c.fn = fn)

(* The document search got past the lookup of its reference chunk. *)
ReferenceResolved ==
    /\ req.op = "search_by_document"
    /\ req.doc_id \in Uuids(store)

(* The text search got as far as the repository search. *)
TextSearchReachedRepository ==
    /\ req.op = "search_documents"
    /\ req.query_text # ""
    /\ req.embed.ok

(* C3: search_by_document_id issues exactly one vector search of the       *)
(* repository, for 4 x limit candidates and with no title exclusion.       *)
C3_OneSearchOfFourTimesLimit ==
    (ReferenceResolved /\ req.db = "up")
        => /\ Len(CallsTo("near_vector")) = 1
           /\ CallsTo("near_vector")[1].limit = 4 * EffectiveLimit(req.limit)
           /\ CallsTo("near_vector")[1].filters = {}

C5_DistanceIsOneMinusSimilarity ==
    ((ReferenceResolved \/ TextSearchReachedRepository) /\ req.db = "up")
        => \E i \in DOMAIN calls :
             /\ calls[i].fn = "near_vector"
             /\ calls[i].distance =
                  IF req.similarity_threshold # None
                  THEN One - Val(req.similarity_threshold)
                  ELSE One - settings.DEFAULT_SIMILARITY_THRESHOLD

----------------------------------------------------------------------------
(* DocumentRepository.store_processed_data                                 *)

(* A vector as the embedder handed it over: a non-empty list of floats,    *)
(* an empty list, None, or a non-empty value that is no list. `v` is the   *)
(* point it denotes.                                                       *)
VectorKinds == {"list", "empty_list", "none", "tuple"}
Truthy(vector) == vector.kind \in {"list", "tuple"}
IsList(vector) == vector.kind \in {"list", "empty_list"}

(* `if not vector or not isinstance(vector, list)` *)
SkippedForVectorNoTypeCheck(vector) == ~Truthy(vector)

SkippedForVector(vector) == ~Truthy(vector) \/ ~IsList(vector)

(* properties = every key of the data object but 'vector' *)
Properties(data_object) ==
    [k \in DOMAIN data_object \ {"vector"} |-> data_object[k]]

(* f"{doi}_{chunk_index}" *)
ObjectId(properties) == <<properties.doi, properties.chunk_index>>

AddObject(properties, vector, raised) ==
    [fn |-> "add_object", kwargs |-> [properties |-> properties, vector |-> vector],
     raised |-> raised]

(* One turn of the loop over the data objects. `raises` tells whether      *)
(* batch.add_object raises for this object.                                *)
BatchStepIdBeforeAdd(acc, data_object, raises) ==
    IF SkippedForVector(data_object.vector) THEN acc
    ELSE [object_ids |-> Append(acc.object_ids, ObjectId(Properties(data_object))),
          batch |-> IF raises THEN acc.batch
                    ELSE Append(acc.batch, [properties |-> Properties(data_object),
                                            vector |-> data_object.vector]),
          calls |-> Append(acc.calls,
                           AddObject(Properties(data_object), data_object.vector, raises))]

BatchStep(acc, data_object, raises) ==
    IF SkippedForVector(data_object.vector) THEN acc
    ELSE IF raises
    THEN [acc EXCEPT !.calls =
            Append(@, AddObject(Properties(data_object), data_object.vector, TRUE))]
    ELSE [object_ids |-> Append(acc.object_ids, ObjectId(Properties(data_object))),
          batch |-> Append(acc.batch, [properties |-> Properties(data_object),
                                       vector |-> data_object.vector]),
          calls |-> Append(acc.calls,
                           AddObject(Properties(data_object), data_object.vector, FALSE))]

RECURSIVE BatchLoop(_, _, _, _)
BatchLoop(data_objects, add_raises, k, acc) ==
    IF k > Len(data_objects) THEN acc
    ELSE BatchLoop(data_objects, add_raises, k + 1,
                   BatchStep(acc, data_objects[k], add_raises[k]))

(* db = "no_collection": get_collection raises, before doc_title is       *)
(* assigned, so the handler's own log line raises UnboundLocalError.       *)
(* db = "no_batch": opening the batch raises.                              *)
(* `batch` are the objects the batch holds when its context is left.       *)
store_processed_data(data_objects, add_raises, db) ==
    IF data_objects = <<>>
    THEN [exc |-> "none", detail |-> "", ret |-> <<>>, calls |-> <<>>, batch |-> <<>>]
    ELSE IF db = "no_collection"
    THEN [exc |-> "UnboundLocalError", detail |-> "doc_title",
          ret |-> <<>>, calls |-> <<>>, batch |-> <<>>]
    ELSE IF db = "no_batch"
    THEN [exc |-> "RuntimeError", detail |-> "Database storage failed",
          ret |-> <<>>, calls |-> <<>>, batch |-> <<>>]
    ELSE LET done == BatchLoop(data_objects, add_raises, 1,
                               [object_ids |-> <<>>, batch |-> <<>>, calls |-> <<>>])
         IN  [exc |-> "none", detail |-> "", ret |-> done.object_ids,
              calls |-> done.calls, batch |-> done.batch]

(* Leaving the batch context sends the batch: every object in it is        *)
(* created in the collection under a fresh uuid.                           *)
NextUuid(objects) ==
    IF objects = <<>> THEN 1
    ELSE 1 + (CHOOSE u \in Uuids(objects) : \A w \in Uuids(objects) : w <= u)

(* The collection stamps an object with the time of its creation; a batch  *)
(* is written within one tick of that clock.                               *)
Now(objects) ==
    IF objects = <<>> THEN 1
    ELSE 1 + (CHOOSE t \in {objects[i].metadata.creation_time : i \in DOMAIN objects} :
                \A i \in DOMAIN objects : objects[i].metadata.creation_time <= t)

Commit(objects, batch) ==
    objects \o [k \in DOMAIN batch |->
                  [uuid |-> NextUuid(objects) + k - 1,
                   properties |-> batch[k].properties,
                   vector |-> batch[k].vector.v,
                   metadata |-> [creation_time |-> Now(objects)]]]

----------------------------------------------------------------------------
(* DocumentService.process_and_store_document                              *)

(* Optional strings are "" when absent. *)
Get(metadata, key) == IF key \in DOMAIN metadata THEN metadata[key] ELSE ""

(* A year as a caller sends it: None, an int, an int too wide for a C int  *)
(* (2**31 and beyond), or a string that is no numeral.                     *)
YearNone == [kind |-> "none", v |-> 0]
IntYear(n) == [kind |-> "int", v |-> n]
BigYear == [kind |-> "bigint", v |-> 0]
TextYear == [kind |-> "text", v |-> 0]

YearTruthy(year) == year.kind \in {"bigint", "text"} \/ (year.kind = "int" /\ year.v # 0)

IngestionTime == [now |-> TRUE, year |-> 0]
JanuaryFirst(year) == [now |-> FALSE, year |-> year]

MinYear == 1
MaxYear == 9999

(* int(year) and datetime(year_val, 1, 1, tzinfo=timezone.utc): int raises *)
(* ValueError on a string that is no numeral; datetime raises ValueError   *)
(* outside MinYear..MaxYear and OverflowError on an int too wide.          *)
DateOfYear(year) ==
    CASE year.kind = "text" -> [exc |-> "ValueError", value |-> IngestionTime]
      [] year.kind = "bigint" -> [exc |-> "OverflowError", value |-> IngestionTime]
      [] year.kind = "int" /\ year.v \in MinYear..MaxYear
           -> [exc |-> "none", value |-> JanuaryFirst(year.v)]
      [] OTHER -> [exc |-> "ValueError", value |-> IngestionTime]

(* `except (ValueError, TypeError): pass`: the default stays; any other    *)
(* exception leaves the merge.                                             *)
Published(metadata) ==
    IF "year" \in DOMAIN metadata /\ YearTruthy(metadata.year)
    THEN LET date == DateOfYear(metadata.year)
         IN  IF date.exc = "ValueError" THEN [exc |-> "none", value |-> IngestionTime]
             ELSE date
    ELSE [exc |-> "none", value |-> IngestionTime]

Override(metadata, key, default) ==
    IF Get(metadata, key) # "" THEN metadata[key] ELSE default

FinalMetadata(file_path, original_filename, metadata) ==
    [title |-> Override(metadata, "title",
                        IF original_filename # "" THEN original_filename ELSE file_path),
     authors |-> Override(metadata, "authors", "Unknown"),
     published |-> Published(metadata).value,
     doi |-> file_path,
     venue |-> Override(metadata, "venue", ""),
     citation_count |-> Override(metadata, "citation_count", ""),
     tldr |-> Override(metadata, "tldr", ""),
     open_access_pdf |-> Override(metadata, "open_access_pdf", "")]

(* What happens to a chunk: the embedder raises on it, or returns a vector *)
(* of some kind; "add_raise" is a proper vector that batch.add_object      *)
(* refuses.                                                                *)
ChunkBehaviours == {"ok", "embed_raise", "add_raise", "none", "tuple"}

(* The embedder is deterministic: the vector of a text. *)
EmbedVec(title, chunk) == IF title = "A" THEN 0 ELSE 2

EmbeddingVector(behaviour, title, chunk) ==
    [kind |-> IF behaviour \in {"ok", "add_raise"} THEN "list" ELSE behaviour,
     v |-> EmbedVec(title, chunk)]

EmbedText(text, raised) == [fn |-> "embed_text", kwargs |-> [text |-> text], raised |-> raised]

DataObject(final_metadata, chunk, chunk_index, vector) ==
    [title |-> final_metadata.title,
     content |-> chunk,
     authors |-> final_metadata.authors,
     published |-> final_metadata.published,
     doi |-> final_metadata.doi,
     chunk_index |-> chunk_index,
     vector |-> vector,
     venue |-> final_metadata.venue,
     citation_count |-> final_metadata.citation_count,
     tldr |-> final_metadata.tldr,
     open_access_pdf |-> final_metadata.open_access_pdf]

(* One turn of `for i, chunk in enumerate(chunks)`. *)
EmbedStepRenumbered(acc, final_metadata, i, chunk, behaviour) ==
    LET text_to_embed == <<final_metadata.title, " [SEP] ", chunk>>
    IN  IF behaviour = "embed_raise"
        THEN [acc EXCEPT !.calls = Append(@, EmbedText(text_to_embed, TRUE))]
        ELSE [processed |-> Append(acc.processed,
                                   DataObject(final_metadata, chunk, Len(acc.processed),
                                              EmbeddingVector(behaviour, final_metadata.title, chunk))),
              calls |-> Append(acc.calls, EmbedText(text_to_embed, FALSE))]

EmbedStep(acc, final_metadata, i, chunk, behaviour) ==
    LET text_to_embed == <<final_metadata.title, " [SEP] ", chunk>>
    IN  IF behaviour = "embed_raise"
        THEN [acc EXCEPT !.calls = Append(@, EmbedText(text_to_embed, TRUE))]
        ELSE [processed |-> Append(acc.processed,
                                   DataObject(final_metadata, chunk, i,
                                              EmbeddingVector(behaviour, final_metadata.title, chunk))),
              calls |-> Append(acc.calls, EmbedText(text_to_embed, FALSE))]

RECURSIVE EmbedLoop(_, _, _, _, _)
EmbedLoop(chunks, behaviours, final_metadata, i, acc) ==
    IF i >= Len(chunks) THEN acc
    ELSE EmbedLoop(chunks, behaviours, final_metadata, i + 1,
                   EmbedStep(acc, final_metadata, i, chunks[i + 1], behaviours[i + 1]))

(* `if not content: return []` and `if not chunks: return []` *)
NothingToProcessContentOnly(content, chunks) == content = ""

NothingToProcess(content, chunks) == content = "" \/ chunks = <<>>

(* f"Internal error processing document: {str(e)}" *)
InternalError(reason) ==
    CASE reason = "Failed to process any chunks."
           -> "Internal error processing document: Failed to process any chunks."
      [] reason = "Database storage failed"
           -> "Internal error processing document: Database storage failed"
      [] reason = "OverflowError"
           -> "Internal error processing document: signed integer is greater than maximum"
      [] reason = "doc_title"
           -> "Internal error processing document: cannot access local variable 'doc_title'"
      [] OTHER -> "Internal error processing document: load_document failed"

ProcessingFailed(reason, calls_made) ==
    [exc |-> "HTTPException", status |-> 500,
     detail |-> InternalError(reason),
     ret |-> <<>>, calls |-> calls_made, batch |-> <<>>]

(* `if not processed_data_objects: raise ValueError(...)`, then the store. *)
StoreSurvivorsUnchecked(processed, add_raises, db) ==
    store_processed_data(processed, add_raises, db)

StoreSurvivors(processed, add_raises, db) ==
    IF processed = <<>>
    THEN [exc |-> "ValueError", detail |-> "Failed to process any chunks.",
          ret |-> <<>>, calls |-> <<>>, batch |-> <<>>]
    ELSE LET stored == store_processed_data(processed, add_raises, db)
         IN  [stored EXCEPT !.calls =
                <<[fn |-> "store_processed_data", kwargs |-> [data_objects |-> processed],
                   exc |-> stored.exc]>> \o @]

(* loader: "raise", or the content it returns ("" when nothing could be    *)
(* extracted); chunks: what the splitter returns for that content.         *)
process_and_store_document(file_path, original_filename, metadata, loader, chunks, behaviours, db) ==
    LET load == CallOf("load_document", [file_path |-> file_path])
        split == CallOf("split_text", [content |-> loader])
    IN  IF loader = "raise"
        THEN ProcessingFailed("load_document failed", <<load>>)
        ELSE IF NothingToProcess(loader, chunks)
        THEN [exc |-> "none", status |-> 200, detail |-> "", ret |-> <<>>,
              calls |-> IF loader = "" THEN <<load>> ELSE <<load, split>>,
              batch |-> <<>>]
        ELSE IF Published(metadata).exc # "none"
        THEN ProcessingFailed(Published(metadata).exc, <<load, split>>)
        ELSE LET final_metadata == FinalMetadata(file_path, original_filename, metadata)
                 embedded == EmbedLoop(chunks, behaviours, final_metadata, 0,
                                       [processed |-> <<>>, calls |-> <<>>])
                 add_raises == [k \in DOMAIN embedded.processed |->
                                   behaviours[embedded.processed[k].chunk_index + 1] = "add_raise"]
                 stored == StoreSurvivors(embedded.processed, add_raises, db)
                 made == <<load, split>> \o embedded.calls \o stored.calls
             IN  IF stored.exc # "none"
                 THEN ProcessingFailed(stored.detail, made)
                 ELSE [exc |-> "none", status |-> 200, detail |-> "",
                       ret |-> stored.ret, calls |-> made, batch |-> stored.batch]

----------------------------------------------------------------------------
(* DocumentRepository.get_all_documents and GET /documents                 *)

PreviewLength == 200
DefaultListLimit == 100

(* `limit or 100` *)
ListLimit(limit) == IF limit = 0 THEN DefaultListLimit ELSE limit

(* collection.query.fetch_objects(limit=...): the first `limit` objects in *)
(* the order the collection lists them. That order follows the objects'    *)
(* uuids, which are random: `listing` is any arrangement of the objects.   *)
fetch_objects(objects, listing, limit) ==
    [k \in 1..Min(limit, Len(objects)) |-> objects[listing[k]]]

Listings(objects) ==
    {listing \in [DOMAIN objects -> DOMAIN objects] :
        \A i, j \in DOMAIN objects : i # j => listing[i] # listing[j]}

(* sorted(..., key=creation_time, reverse=True): newest first, objects of  *)
(* one creation time in the order they were fetched.                       *)
RECURSIVE InsertNewestFirst(_, _)
InsertNewestFirst(sorted_objects, obj) ==
    IF sorted_objects = <<>> THEN <<obj>>
    ELSE IF Head(sorted_objects).metadata.creation_time >= obj.metadata.creation_time
    THEN <<Head(sorted_objects)>> \o InsertNewestFirst(Tail(sorted_objects), obj)
    ELSE <<obj>> \o sorted_objects

RECURSIVE SortNewestFirst(_, _, _)
SortNewestFirst(objects, k, sorted_objects) ==
    IF k > Len(objects) THEN sorted_objects
    ELSE SortNewestFirst(objects, k + 1, InsertNewestFirst(sorted_objects, objects[k]))

ListEntry(obj) ==
    [id |-> obj.uuid,
     title |-> obj.properties.title,
     content |-> Slice(obj.properties.content, PreviewLength),
     authors |-> obj.properties.authors,
     published |-> obj.properties.published,
     doi |-> obj.properties.doi,
     similarity_score |-> 0,
     distance |-> 0,
     vector |-> None,
     chunk_index |-> obj.properties.chunk_index]

(* One turn of the loop over the sorted objects. *)
DedupStepNoSeen(acc, obj) ==
    [seen_titles |-> acc.seen_titles \cup {obj.properties.title},
     results |-> Append(acc.results, ListEntry(obj))]

DedupStep(acc, obj) ==
    IF obj.properties.title \notin acc.seen_titles
    THEN [seen_titles |-> acc.seen_titles \cup {obj.properties.title},
          results |-> Append(acc.results, ListEntry(obj))]
    ELSE acc

RECURSIVE DedupLoop(_, _, _)
DedupLoop(sorted_objects, k, acc) ==
    IF k > Len(sorted_objects) THEN acc
    ELSE DedupLoop(sorted_objects, k + 1, DedupStep(acc, sorted_objects[k]))

get_all_documents(limit, listing, db) ==
    IF db # "up"
    THEN [exc |-> "RuntimeError", ret |-> <<>>, calls |-> <<>>]
    ELSE LET fetched == fetch_objects(store, listing, ListLimit(limit))
             sorted_objects == SortNewestFirst(fetched, 1, <<>>)
         IN  [exc |-> "none",
              ret |-> DedupLoop(sorted_objects, 1,
                                [seen_titles |-> {}, results |-> <<>>]).results,
              calls |-> <<[fn |-> "fetch_objects", limit |-> ListLimit(limit),
                           fetched |-> [k \in DOMAIN fetched |-> fetched[k].uuid]]>>]

ListLimits == 0..MaxStore

(* GET /documents: the endpoint has no handler of its own for an error of  *)
(* the repository; the framework answers 500.                              *)
GetDocuments ==
    /\ req = Idle
    /\ \E limit \in ListLimits, listing \in Listings(store), db \in DbStates :
          LET out == get_all_documents(limit, listing, db)
          IN  /\ req' = [op |-> "get_documents", limit |-> limit, db |-> db]
              /\ resp' = IF out.exc = "none" THEN Response(200, "", out.ret)
                         ELSE Response(500, "Internal Server Error", <<>>)
              /\ calls' = out.calls
    /\ UNCHANGED <<store, settings, temp_files>>
    /\ UNCHANGED <<app, central>>

----------------------------------------------------------------------------
(* main.py: POST /upload                                                   *)

Filenames == {"B"}

(* FileHandler.save_uploaded_file: the temporary file is named after the  *)
(* uploaded file (the doi of a document is made from its stem).            *)
SavedPath(filename) == filename

SplitText(n) == [i \in 1..n |-> ChunkTexts[i]]

StoreDbStates == {"up", "no_collection", "no_batch"}

(* The whole handler: validate, save, process and store, answer, and       *)
(* in `finally` unlink the saved file; an OSError of unlink is logged.     *)
upload_file_unlink_on_success(r) ==
    IF ~r.valid
    THEN [resp |-> Response(400, "invalid file", <<>>), calls |-> <<>>,
          store |-> store, temp_files |-> temp_files]
    ELSE LET user_metadata == [title |-> r.title, authors |-> r.authors, year |-> r.year]
             out == process_and_store_document(r.file_path, r.filename, user_metadata,
                                               r.loader, r.chunks, r.behaviours, r.db)
         IN  [resp |-> IF out.exc = "none" THEN Response(200, "", out.ret)
                       ELSE Response(out.status, out.detail, <<>>),
              calls |-> out.calls,
              store |-> Commit(store, out.batch),
              temp_files |-> IF r.unlink = "ok" /\ out.exc = "none"
                             THEN temp_files \ {r.file_path}
                             ELSE temp_files \cup {r.file_path}]

upload_file(r) ==
    IF ~r.valid
    THEN [resp |-> Response(400, "invalid file", <<>>), calls |-> <<>>,
          store |-> store, temp_files |-> temp_files]
    ELSE LET user_metadata == [title |-> r.title, authors |-> r.authors, year |-> r.year]
             out == process_and_store_document(r.file_path, r.filename, user_metadata,
                                               r.loader, r.chunks, r.behaviours, r.db)
         IN  [resp |-> IF out.exc = "none" THEN Response(200, "", out.ret)
                       ELSE Response(out.status, out.detail, <<>>),
              calls |-> out.calls,
              store |-> Commit(store, out.batch),
              temp_files |-> IF r.unlink = "ok" THEN temp_files \ {r.file_path}
                             ELSE temp_files \cup {r.file_path}]

(* The form fields of a request: title, authors and year, which the        *)
(* handler declares, and venue, citation_count, tldr and open_access_pdf,  *)
(* which save_paper_to_rag sends along with them.                          *)
NoExtraFields == [venue |-> "", citation_count |-> "", tldr |-> "", open_access_pdf |-> ""]
LibraryFields == [venue |-> "V", citation_count |-> "3", tldr |-> "T", open_access_pdf |-> "U"]

UserMetadata ==
    {[title |-> "", authors |-> "", year |-> YearNone, extra |-> NoExtraFields],
     [title |-> "A", authors |-> "X", year |-> IntYear(10000), extra |-> LibraryFields],
     [title |-> "A", authors |-> "X", year |-> BigYear, extra |-> NoExtraFields]}

(* The requests whose document splits into n chunks. Where a field cannot  *)
(* matter to the handler it takes one value only.                          *)
UploadsOf(n) ==
    {r \in {[op |-> "upload", filename |-> filename, title |-> m.title,
             authors |-> m.authors, year |-> m.year,
             venue |-> m.extra.venue, citation_count |-> m.extra.citation_count,
             tldr |-> m.extra.tldr, open_access_pdf |-> m.extra.open_access_pdf,
             valid |-> valid,
             file_path |-> SavedPath(filename), loader |-> loader,
             chunks |-> SplitText(n), behaviours |-> behaviours, db |-> db,
             unlink |-> unlink] :
                filename \in Filenames, m \in UserMetadata, valid \in BOOLEAN,
                loader \in IF n = 0 THEN {"raise", "", "text"} ELSE {"text"},
                behaviours \in [1..n -> ChunkBehaviours], db \in StoreDbStates,
                unlink \in {"ok", "OSError"}} :
        /\ (\A i \in DOMAIN r.behaviours : r.behaviours[i] = "embed_raise") => r.db = "up"
        /\ r.year = BigYear => /\ r.db = "up"
                               /\ \A i \in DOMAIN r.behaviours : r.behaviours[i] = "ok"
        /\ ~r.valid => /\ r.loader = "" /\ r.unlink = "ok"
                       /\ r.title = "" /\ r.authors = ""}

UploadRequests == UNION {UploadsOf(n) : n \in 0..Min(MaxChunks, MaxStore - Len(store))}

Upload ==
    /\ req = Idle
    /\ \E r \in UploadRequests :
          LET out == upload_file(r)
          IN  /\ req' = r
              /\ resp' = out.resp
              /\ calls' = out.calls
              /\ store' = out.store
              /\ temp_files' = out.temp_files
    /\ UNCHANGED settings
    /\ UNCHANGED <<app, central>>

InitIngest ==
    /\ store = <<>>
    /\ settings \in [DEFAULT_SEARCH_LIMIT : {2}, DEFAULT_SIMILARITY_THRESHOLD : {7}]
    /\ req = Idle
    /\ resp = NoResponse
    /\ calls = <<>>
    /\ temp_files = {}
    /\ app = Serving
    /\ CentralAtRest

NextIngest == Upload \/ GetDocuments \/ Reply

SpecIngest == InitIngest /\ [][NextIngest]_vars

(* An upload that got as far as the loop over the chunks of the document. *)
UploadWithChunks ==
    /\ req.op = "upload"
    /\ req.valid
    /\ req.loader = "text"
    /\ req.chunks # <<>>
    /\ CallsTo("embed_text") # <<>>

(* The positions (from 1) of the chunks whose embedding did not raise. *)
Embedded == {i \in DOMAIN req.chunks : req.behaviours[i] # "embed_raise"}

HandedToRepository == CallsTo("store_processed_data")[1].kwargs.data_objects

NoChunksProcessed ==
    "Internal error processing document: Failed to process any chunks."

(* C6: whatever chunks the embedder fails on, as long as one succeeds the  *)
(* ingestion does not fail for it, and the repository is handed exactly    *)
(* the chunks whose embedding succeeded, in split order, each with its     *)
(* position in the full split sequence as chunk_index.                     *)
C6_SurvivorsKeepSplitIndex ==
    (UploadWithChunks /\ Embedded # {})
        => /\ Len(CallsTo("store_processed_data")) = 1
           /\ Len(HandedToRepository) = Cardinality(Embedded)
           /\ \A k \in DOMAIN HandedToRepository :
                /\ HandedToRepository[k].chunk_index + 1 \in Embedded
                /\ HandedToRepository[k].content =
                      req.chunks[HandedToRepository[k].chunk_index + 1]
                /\ \A l \in DOMAIN HandedToRepository :
                      k < l => HandedToRepository[k].chunk_index
                                  < HandedToRepository[l].chunk_index
           /\ req.db = "up" => resp.status = 200
           /\ resp.detail # NoChunksProcessed

(* The first chunk fails, a later one survives and keeps its index. *)
C6_Witness ==
    /\ UploadWithChunks
    /\ req.behaviours[1] = "embed_raise"
    /\ Embedded # {}
    /\ resp.status = 200
    /\ HandedToRepository[1].chunk_index >= 1
    /\ Len(store) >= 1

(* C7: when the embedding fails for every chunk the ingestion fails with   *)
(* the processing error, the batch store is never called and the store is  *)
(* left as it was.                                                         *)
C7_AllFailedNothingStored ==
    [][(UploadWithChunks' /\ Embedded' = {})
         => /\ resp'.status = 500
            /\ resp'.detail = NoChunksProcessed
            /\ CallsTo("store_processed_data")' = <<>>
            /\ CallsTo("add_object")' = <<>>
            /\ store' = store]_vars

C7_Witness ==
    /\ UploadWithChunks
    /\ Len(req.chunks) >= 2
    /\ Embedded = {}
    /\ resp.status = 500
    /\ Len(CallsTo("embed_text")) = Len(req.chunks)

(* C8: empty content, or an empty chunk sequence, makes the ingestion      *)
(* return an empty list without an error and without a call of the         *)
(* embedder or of the repository store.                                    *)
C8_NothingToIngest ==
    (req.op = "upload" /\ req.valid /\ req.loader # "raise" /\ req.chunks = <<>>)
        => /\ resp.status = 200
           /\ resp.body = <<>>
           /\ CallsTo("embed_text") = <<>>
           /\ CallsTo("store_processed_data") = <<>>
           /\ CallsTo("add_object") = <<>>

C8_Witness ==
    /\ req.op = "upload"
    /\ req.valid
    /\ req.loader = "text"
    /\ req.chunks = <<>>
    /\ resp.status = 200
    /\ CallsTo("split_text") # <<>>

StoreCalled ==
    /\ req.op = "upload"
    /\ CallsTo("store_processed_data") # <<>>
    /\ req.db = "up"

ProperVector(data_object) == data_object.vector.kind = "list"

Added == SelectSeq(CallsTo("add_object"), LAMBDA c : ~c.raised)

(* C9: store_processed_data adds to the batch the input objects whose      *)
(* vector is a non-empty list and no other, in input order, does not       *)
(* raise, and returns one id per object the batch took, in input order.    *)
C9_OnlyProperVectorsAdded ==
    StoreCalled
        => LET proper == SelectSeq(HandedToRepository, ProperVector)
               adds == CallsTo("add_object")
           IN  /\ Len(adds) = Len(proper)
               /\ \A k \in DOMAIN adds :
                    /\ adds[k].kwargs.vector = proper[k].vector
                    /\ adds[k].kwargs.properties = Properties(proper[k])
               /\ resp.status = 200
               /\ resp.body = [k \in DOMAIN Added |->
                                 <<Added[k].kwargs.properties.doi,
                                   Added[k].kwargs.properties.chunk_index>>]

(* Objects with every kind of unusable vector are passed over. *)
C9_Witness ==
    /\ StoreCalled
    /\ \E k \in DOMAIN HandedToRepository : HandedToRepository[k].vector.kind = "tuple"
    /\ \E k \in DOMAIN HandedToRepository : ~Truthy(HandedToRepository[k].vector)
    /\ Len(resp.body) = 1

(* The positions (from 1) of the chunks the batch takes. *)
Taken == {i \in DOMAIN req.chunks : req.behaviours[i] = "ok"}

RECURSIVE Ascending(_)
Ascending(S) ==
    IF S = {} THEN <<>>
    ELSE LET least == CHOOSE i \in S : \A j \in S : i <= j
         IN  <<least>> \o Ascending(S \ {least})

(* C10: when batch.add_object raises for an object, the call does not      *)
(* raise, that object is left out, and every other object with a proper    *)
(* vector is added, reported in the returned ids and stored.               *)
C10_FailedAddSkipsOnlyThatObject ==
    (StoreCalled /\ \E i \in DOMAIN req.chunks : req.behaviours[i] = "add_raise")
        => LET taken == Ascending(Taken)
               tail == SubSeq(store, Len(store) - Len(taken) + 1, Len(store))
           IN  /\ resp.status = 200
               /\ resp.body = [k \in DOMAIN taken |-> <<req.file_path, taken[k] - 1>>]
               /\ Len(store) >= Len(taken)
               /\ \A k \in DOMAIN taken :
                    /\ tail[k].properties.doi = req.file_path
                    /\ tail[k].properties.chunk_index = taken[k] - 1
                    /\ tail[k].properties.content = req.chunks[taken[k]]

(* The add fails for the first object and the second is still stored. *)
C10_Witness ==
    /\ StoreCalled
    /\ Len(req.chunks) >= 2
    /\ req.behaviours[1] = "add_raise"
    /\ req.behaviours[2] = "ok"
    /\ resp.status = 200
    /\ resp.body = <<<<req.file_path, 1>>>>

(* C11: store_processed_data raises the storage error (RuntimeError) when  *)
(* the collection cannot be obtained or the batch cannot be opened, raises *)
(* no other kind of exception, and raises it in no other situation.        *)
C11_StorageErrorIffUnreachable ==
    (req.op = "upload" /\ CallsTo("store_processed_data") # <<>>)
        => LET stored == CallsTo("store_processed_data")[1]
           IN  /\ stored.exc \in {"none", "RuntimeError"}
               /\ stored.exc = "RuntimeError" <=> req.db # "up"

----------------------------------------------------------------------------
(* DocumentRepository.update_document and delete_document                  *)

FanOutFetchLimit == 1000

(* collection.query.fetch_objects(filters=title equal, limit=1000): the    *)
(* positions of the chunks of that title, cut to the limit.                *)
RECURSIVE FirstOf(_, _, _)
FirstOf(objects, title, i) ==
    IF i > Len(objects) THEN <<>>
    ELSE IF objects[i].properties.title = title
    THEN <<i>> \o FirstOf(objects, title, i + 1)
    ELSE FirstOf(objects, title, i + 1)

fetch_by_title(objects, title) ==
    LET found == FirstOf(objects, title, 1)
    IN  SubSeq(found, 1, Min(FanOutFetchLimit, Len(found)))

(* collection.data.update(uuid, properties): the properties are merged     *)
(* into the object's own, key by key.                                      *)
data_update(objects, i, updates) ==
    [objects EXCEPT ![i].properties = updates @@ @]

DataUpdate(uuid, updates, raised) ==
    [fn |-> "data.update", uuid |-> uuid, properties |-> updates, raised |-> raised]

(* The loop over the chunks of the title; the update number `fail_at`      *)
(* raises (0: none does) and the loop is left with the earlier updates     *)
(* applied.                                                                *)
RECURSIVE UpdateLoop(_, _, _, _, _)
UpdateLoop(chunks, k, updates, fail_at, acc) ==
    IF k > Len(chunks) THEN acc
    ELSE IF k = fail_at
    THEN [acc EXCEPT !.exc = "RuntimeError",
                     !.calls = Append(@, DataUpdate(acc.objects[chunks[k]].uuid, updates, TRUE))]
    ELSE UpdateLoop(chunks, k + 1, updates, fail_at,
                    [exc |-> "none",
                     objects |-> data_update(acc.objects, chunks[k], updates),
                     calls |-> Append(acc.calls,
                                      DataUpdate(acc.objects[chunks[k]].uuid, updates, FALSE))])

FetchById(doc_id) == [fn |-> "fetch_object_by_id", uuid |-> doc_id]

repository_update_document_single(doc_id, updates, fail_at, db) ==
    LET obj == ObjectById(store, doc_id)
    IN  IF db # "up"
        THEN [exc |-> "RuntimeError", ret |-> FALSE, objects |-> store, calls |-> <<>>]
        ELSE IF obj = None
        THEN [exc |-> "none", ret |-> FALSE, objects |-> store, calls |-> <<FetchById(doc_id)>>]
        ELSE LET done == UpdateLoop(<<Val(obj)>>, 1, updates, fail_at,
                                    [exc |-> "none", objects |-> store, calls |-> <<>>])
             IN  [exc |-> done.exc, ret |-> done.exc = "none", objects |-> done.objects,
                  calls |-> <<FetchById(doc_id)>> \o done.calls]

repository_update_document(doc_id, updates, fail_at, db) ==
    LET obj == ObjectById(store, doc_id)
    IN  IF db # "up"
        THEN [exc |-> "RuntimeError", ret |-> FALSE, objects |-> store, calls |-> <<>>]
        ELSE IF obj = None
        THEN [exc |-> "none", ret |-> FALSE, objects |-> store, calls |-> <<FetchById(doc_id)>>]
        ELSE LET current_title == store[Val(obj)].properties.title
                 chunks == IF current_title # ""
                           THEN fetch_by_title(store, current_title)
                           ELSE <<Val(obj)>>
                 done == UpdateLoop(chunks, 1, updates, fail_at,
                                    [exc |-> "none", objects |-> store, calls |-> <<>>])
             IN  [exc |-> done.exc, ret |-> done.exc = "none", objects |-> done.objects,
                  calls |-> <<FetchById(doc_id)>> \o done.calls]

(* collection.data.delete_many(where=title equal) and delete_by_id. *)
delete_many(objects, title) ==
    SelectSeq(objects, LAMBDA o : o.properties.title # title)

delete_by_id(objects, doc_id) ==
    SelectSeq(objects, LAMBDA o : o.uuid # doc_id)

repository_delete_document_single(doc_id, db) ==
    LET obj == ObjectById(store, doc_id)
    IN  IF db # "up"
        THEN [exc |-> "RuntimeError", ret |-> FALSE, objects |-> store, calls |-> <<>>]
        ELSE IF obj = None
        THEN [exc |-> "none", ret |-> FALSE, objects |-> store, calls |-> <<FetchById(doc_id)>>]
        ELSE [exc |-> "none", ret |-> TRUE, objects |-> delete_by_id(store, doc_id),
              calls |-> <<FetchById(doc_id), [fn |-> "delete_by_id", uuid |-> doc_id]>>]

repository_delete_document(doc_id, db) ==
    LET obj == ObjectById(store, doc_id)
    IN  IF db # "up"
        THEN [exc |-> "RuntimeError", ret |-> FALSE, objects |-> store, calls |-> <<>>]
        ELSE IF obj = None
        THEN [exc |-> "none", ret |-> FALSE, objects |-> store, calls |-> <<FetchById(doc_id)>>]
        ELSE LET target_title == store[Val(obj)].properties.title
             IN  IF target_title # ""
                 THEN [exc |-> "none", ret |-> TRUE,
                       objects |-> delete_many(store, target_title),
                       calls |-> <<FetchById(doc_id),
                                   [fn |-> "delete_many", title |-> target_title,
                                    matches |-> Len(FirstOf(store, target_title, 1))]>>]
                 ELSE [exc |-> "none", ret |-> TRUE,
                       objects |-> delete_by_id(store, doc_id),
                       calls |-> <<FetchById(doc_id),
                                   [fn |-> "delete_by_id", uuid |-> doc_id]>>]

----------------------------------------------------------------------------
(* DocumentService.update_document and delete_document; PUT and DELETE     *)
(* /documents/{doc_id}                                                     *)

(* {k: v for k, v in update_data.items() if v is not None} *)
NotNone(update_data) ==
    [k \in {f \in DOMAIN update_data : update_data[f] # None} |-> Val(update_data[k])]

Without(updates, key) == [k \in DOMAIN updates \ {key} |-> updates[k]]

(* `year` is popped; its date, when there is one, becomes `published`. *)
YearToPublished(updates) ==
    IF "year" \notin DOMAIN updates
    THEN [exc |-> "none", updates |-> updates]
    ELSE LET date == DateOfYear(updates.year)
             rest == Without(updates, "year")
         IN  IF date.exc = "none"
             THEN [exc |-> "none", updates |-> ("published" :> date.value) @@ rest]
             ELSE IF date.exc = "ValueError"
             THEN [exc |-> "none", updates |-> rest]
             ELSE [exc |-> date.exc, updates |-> rest]

update_document(doc_id, update_data, fail_at, db) ==
    LET converted == YearToPublished(NotNone(update_data))
    IN  IF converted.exc # "none"
        THEN [exc |-> converted.exc, ret |-> FALSE, objects |-> store, calls |-> <<>>]
        ELSE LET out == repository_update_document(doc_id, converted.updates, fail_at, db)
             IN  [out EXCEPT !.calls =
                    <<[fn |-> "repository.update_document", doc_id |-> doc_id,
                       updates |-> converted.updates]>> \o @]

delete_document(doc_id, db) == repository_delete_document(doc_id, db)

(* Neither endpoint handles an exception of the service: the framework     *)
(* answers 500.                                                            *)
update_document_metadata_ignores_result(out) ==
    IF out.exc # "none" THEN Response(500, "Internal Server Error", <<>>)
    ELSE Response(200, "Document updated successfully", <<>>)

update_document_metadata(out) ==
    IF out.exc # "none" THEN Response(500, "Internal Server Error", <<>>)
    ELSE IF ~out.ret THEN Response(404, "Document not found or update failed", <<>>)
    ELSE Response(200, "Document updated successfully", <<>>)

delete_document_endpoint(out) ==
    IF out.exc # "none" THEN Response(500, "Internal Server Error", <<>>)
    ELSE IF ~out.ret THEN Response(404, "Document not found or deletion failed", <<>>)
    ELSE Response(200, "Document deleted successfully", <<>>)

(* The bodies of the update requests: each field is None or a value. *)
UpdateRequests ==
    {[title |-> Some("B"), authors |-> None, year |-> None],
     [title |-> Some(""), authors |-> None, year |-> None],
     [title |-> None, authors |-> Some("X"), year |-> Some(IntYear(2020))],
     [title |-> None, authors |-> Some("X"), year |-> Some(TextYear)],
     [title |-> None, authors |-> Some("X"), year |-> Some(IntYear(10000))],
     [title |-> None, authors |-> Some("X"), year |-> Some(BigYear)],
     [title |-> None, authors |-> None, year |-> None]}

(* Which update of the loop raises: none, or the second. *)
FailAt == {0, 2}

(* Where an input cannot matter to the handler it takes one value only:   *)
(* nothing is looked up when the conversion of the year raises or the      *)
(* collection is down, and no second update is made on a single chunk.     *)
UpdateInputMatters(doc_id, update_data, fail_at, db) ==
    /\ (db # "up" \/ YearToPublished(NotNone(update_data)).exc # "none")
          => doc_id = 1 /\ fail_at = 0
    /\ db # "up" => update_data = [title |-> None, authors |-> None, year |-> None]
    /\ fail_at = 2
          => /\ doc_id \in Uuids(store)
             /\ LET title == store[Val(ObjectById(store, doc_id))].properties.title
                IN  title # "" /\ Len(fetch_by_title(store, title)) >= 2

UpdateDocumentMetadata ==
    /\ req = Idle
    /\ \E doc_id \in DocIds, update_data \in UpdateRequests, fail_at \in FailAt,
          db \in DbStates :
          LET out == update_document(doc_id, update_data, fail_at, db)
          IN  /\ UpdateInputMatters(doc_id, update_data, fail_at, db)
              /\ req' = [op |-> "update_document", doc_id |-> doc_id,
                         update_data |-> update_data, fail_at |-> fail_at, db |-> db]
              /\ resp' = update_document_metadata(out)
              /\ calls' = out.calls
              /\ store' = out.objects
    /\ UNCHANGED <<settings, temp_files>>
    /\ UNCHANGED <<app, central>>

DeleteDocument ==
    /\ req = Idle
    /\ \E doc_id \in DocIds, db \in DbStates :
          LET out == delete_document(doc_id, db)
          IN  /\ req' = [op |-> "delete_document", doc_id |-> doc_id, db |-> db]
              /\ resp' = delete_document_endpoint(out)
              /\ calls' = out.calls
              /\ store' = out.objects
    /\ UNCHANGED <<settings, temp_files>>
    /\ UNCHANGED <<app, central>>

(* The library as requests find it: chunks of documents, some of them      *)
(* left without a title by an update; `tick` tells whether the clock of    *)
(* the collection moved on before the object was created.                  *)
LibraryTitles == {"A", "B", ""}

LibraryObjects(shape) ==
    [i \in DOMAIN shape |->
        [uuid |-> i,
         properties |->
            [title |-> shape[i].title,
             content |-> ChunkTexts[i],
             authors |-> "Unknown",
             published |-> IngestionTime,
             doi |-> "B",
             chunk_index |-> i - 1,
             venue |-> "", citation_count |-> "", tldr |-> "", open_access_pdf |-> ""],
         vector |-> 2 * (i % 2),
         metadata |-> [creation_time |-> 1 + Cardinality({j \in 2..i : shape[j].tick})]]]

LibraryShapes == UNION {[1..n -> [title : LibraryTitles, tick : BOOLEAN]] : n \in 0..MaxStore}

InitLibrary ==
    /\ \E shape \in LibraryShapes : store = LibraryObjects(shape)
    /\ settings \in [DEFAULT_SEARCH_LIMIT : {2}, DEFAULT_SIMILARITY_THRESHOLD : {7}]
    /\ req = Idle
    /\ resp = NoResponse
    /\ calls = <<>>
    /\ temp_files = {}
    /\ app = Serving
    /\ CentralAtRest

(* Listing and deleting. *)
NextLibrary == GetDocuments \/ DeleteDocument \/ Reply

SpecLibrary == InitLibrary /\ [][NextLibrary]_vars

(* Updating: the times of creation play no part, every object has its own. *)
InitUpdate ==
    /\ \E shape \in LibraryShapes :
          /\ \A i \in DOMAIN shape : shape[i].tick
          /\ store = LibraryObjects(shape)
    /\ settings \in [DEFAULT_SEARCH_LIMIT : {2}, DEFAULT_SIMILARITY_THRESHOLD : {7}]
    /\ req = Idle
    /\ resp = NoResponse
    /\ calls = <<>>
    /\ temp_files = {}
    /\ app = Serving
    /\ CentralAtRest

NextUpdate == UpdateDocumentMetadata \/ Reply

SpecUpdate == InitUpdate /\ [][NextUpdate]_vars

(* Listing, updating and deleting on one library. *)
NextDocuments == GetDocuments \/ UpdateDocumentMetadata \/ DeleteDocument \/ Reply

SpecDocuments == InitUpdate /\ [][NextDocuments]_vars

----------------------------------------------------------------------------
(* Listing the documents.                                                  *)

ListReturned == req.op = "get_documents" /\ resp.status = 200

StoredTitles == {store[i].properties.title : i \in DOMAIN store}

ChunksOf(title) == {i \in DOMAIN store : store[i].properties.title = title}

EntriesOf(title) == {k \in DOMAIN resp.body : resp.body[k].title = title}

(* The stored object a list entry was made from. *)
Shown(entry) == store[Val(ObjectById(store, entry.id))]

(* C12: whatever the store holds and whatever the limit, get_all_documents *)
(* returns no two entries with the same title.                             *)
C12_NoTwoEntriesOfOneTitle ==
    ListReturned
        => \A i, j \in DOMAIN resp.body :
              i # j => resp.body[i].title # resp.body[j].title

(* Several chunks of one title were fetched and make one entry. *)
C12_Witness ==
    /\ ListReturned
    /\ Len(calls[1].fetched) >= 3
    /\ Len(resp.body) = 2
    /\ \E t \in StoredTitles :
          Cardinality({k \in DOMAIN calls[1].fetched :
                          calls[1].fetched[k] \in {store[i].uuid : i \in ChunksOf(t)}}) >= 2

(* C13: the entries of get_all_documents are ordered by creation time,     *)
(* newest first; the entry of a title is its most recently created chunk;  *)
(* the content of an entry is the first 200 characters of that chunk.      *)
C13_NewestFirstNewestChunkPreview ==
    ListReturned
        => /\ \A i, j \in DOMAIN resp.body :
                i < j => Shown(resp.body[i]).metadata.creation_time
                            >= Shown(resp.body[j]).metadata.creation_time
           /\ \A k \in DOMAIN resp.body :
                /\ \A i \in ChunksOf(resp.body[k].title) :
                      store[i].metadata.creation_time
                         <= Shown(resp.body[k]).metadata.creation_time
                /\ resp.body[k].content
                      = Slice(Shown(resp.body[k]).properties.content, PreviewLength)
                /\ TextLen(resp.body[k].content) <= PreviewLength

(* C14: once documents have been ingested, a listing whose limit is at     *)
(* least the number of distinct stored titles shows exactly one entry for  *)
(* the title of each, whatever the numbers of their chunks.                *)
C14_OneEntryPerIngestedTitle ==
    (ListReturned /\ ListLimit(req.limit) >= Cardinality(StoredTitles))
        => \A t \in StoredTitles : Cardinality(EntriesOf(t)) = 1

C16_DeleteRemovesWholeDocument ==
    [][/\ (req = Idle /\ req'.op = "delete_document" /\ resp'.status = 200)
           => LET target == Val(ObjectById(store, req'.doc_id))
                  title == store[target].properties.title
              IN  store' = IF title # ""
                           THEN SelectSeq(store, LAMBDA o : o.properties.title # title)
                           ELSE SelectSeq(store, LAMBDA o : o.uuid # req'.doc_id)
       /\ (req = Idle /\ req'.op = "get_documents" /\ resp'.status = 200)
           => \A k \in DOMAIN resp'.body :
                 resp'.body[k].title \in {store[i].properties.title : i \in DOMAIN store}]_vars

(* All the chunks of a document went, a chunk of another title stays. *)
C16_Witness ==
    /\ req.op = "delete_document"
    /\ resp.status = 200
    /\ Len(calls) = 2
    /\ calls[2].fn = "delete_many"
    /\ calls[2].matches >= 2
    /\ calls[2].title \notin StoredTitles
    /\ store # <<>>

(* C17: the service's update_document hands the repository the fields that *)
(* are not null; a year never reaches it as `year`: a year from 1 to 9999  *)
(* arrives as `published`, January 1 of that year; any other year is       *)
(* dropped, the update does not fail and the other fields are applied.     *)
C17_YearBecomesPublishedOrIsDropped ==
    (req.op = "update_document" /\ req.db = "up")
        => LET sent == CallsTo("repository.update_document")
               year == req.update_data.year
           IN  /\ Len(sent) = 1
               /\ "year" \notin DOMAIN sent[1].updates
               /\ \A k \in {"title", "authors"} :
                     IF req.update_data[k] = None
                     THEN k \notin DOMAIN sent[1].updates
                     ELSE /\ k \in DOMAIN sent[1].updates
                          /\ sent[1].updates[k] = Val(req.update_data[k])
               /\ IF year # None /\ Val(year).kind = "int"
                        /\ Val(year).v >= MinYear /\ Val(year).v <= MaxYear
                  THEN /\ "published" \in DOMAIN sent[1].updates
                       /\ sent[1].updates.published = JanuaryFirst(Val(year).v)
                  ELSE "published" \notin DOMAIN sent[1].updates

----------------------------------------------------------------------------
(* Metadata of an ingestion and the temporary file of an upload.           *)

(* The year of the request is there and is no year of a date. *)
UnusableYear ==
    /\ req.year.kind # "none"
    /\ ~(req.year.kind = "int" /\ req.year.v >= MinYear /\ req.year.v <= MaxYear)

(* C18: a year that cannot be turned into a date never fails the           *)
(* ingestion: every chunk is embedded, `published` stays the ingestion     *)
(* time, the title and authors supplied still replace their defaults, and  *)
(* every chunk carries the same merged metadata.                           *)
C18_MalformedYearNeverFatal ==
    (req.op = "upload" /\ req.valid /\ req.loader = "text" /\ req.chunks # <<>>
        /\ UnusableYear)
        => /\ Len(CallsTo("embed_text")) = Len(req.chunks)
           /\ Embedded # {}
                => \A k \in DOMAIN HandedToRepository :
                      /\ HandedToRepository[k].published = IngestionTime
                      /\ HandedToRepository[k].title =
                            IF req.title # "" THEN req.title ELSE req.filename
                      /\ HandedToRepository[k].authors =
                            IF req.authors # "" THEN req.authors ELSE "Unknown"

C20_OnlyTargetTitlesReturned ==
    (TextSearchReachedRepository /\ req.db = "up" /\ req.target_titles # None)
        => /\ resp.status = 200
           /\ \A k \in DOMAIN resp.body : resp.body[k].title \in Range(req.target_titles)

(* C21: for a non-empty query, a working embedder and a reachable store    *)
(* the text search succeeds: the repository is handed the vector of the    *)
(* prefixed query, the limit, the converted distance threshold, the        *)
(* target titles and the raw query text, and one ranked query of the       *)
(* store is issued, whose results are the answer.                          *)
C21_TextSearchDelegates ==
    (TextSearchReachedRepository /\ req.db = "up")
        => /\ resp.status = 200
           /\ Len(CallsTo("search_by_vector")) = 1
           /\ CallsTo("search_by_vector")[1].kwargs.text_query = req.query_text
           /\ CallsTo("search_by_vector")[1].kwargs.target_titles = req.target_titles
           /\ Len(CallsTo("near_vector")) = 1

(* C23: the venue, citation_count, tldr and open_access_pdf sent with an   *)
(* upload are stored on every chunk record of the ingested document.       *)
C23_LibraryFieldsStored ==
    (req.op = "upload" /\ req.valid /\ resp.status = 200 /\ CallsTo("add_object") # <<>>)
        => \A k \in DOMAIN CallsTo("add_object") :
              LET properties == CallsTo("add_object")[k].kwargs.properties
              IN  /\ properties.venue = req.venue
                  /\ properties.citation_count = req.citation_count
                  /\ properties.tldr = req.tldr
                  /\ properties.open_access_pdf = req.open_access_pdf

----------------------------------------------------------------------------
(* Documents are known by their title only.                                *)

(* Chunk i belongs to another document than chunk `target` (it was written *)
(* by another ingestion) and carries the same title.                       *)
CollidesWith(target, i) ==
    /\ store[target].properties.title # ""
    /\ store[i].properties.title = store[target].properties.title
    /\ store[i].metadata.creation_time # store[target].metadata.creation_time

Writes == {"data.update", "delete_many", "delete_by_id"}

(* C25: when the repository's update_document or delete_document finds no  *)
(* record of the id, nothing is written, the store is as it was and the    *)
(* endpoint answers 404.                                                   *)
C25_UnknownIdWritesNothing ==
    [][(/\ req = Idle
        /\ req'.op \in {"update_document", "delete_document"}
        /\ CallsTo("fetch_object_by_id")' # <<>>
        /\ req'.doc_id \notin Uuids(store))
          => /\ resp'.status = 404
             /\ store' = store
             /\ \A k \in DOMAIN calls' : calls'[k].fn \notin Writes]_vars

(* An update of fields that would have changed a chunk found no record. *)
C25_Witness ==
    /\ req.op = "update_document"
    /\ req.doc_id \notin Uuids(store)
    /\ req.update_data.authors # None
    /\ CallsTo("fetch_object_by_id") # <<>>
    /\ resp.status = 404
    /\ store # <<>>

(* C27: the fan-out of an update is all or nothing: when update_document   *)
(* raises, no chunk has been modified.                                     *)
C27_UpdateAllOrNothing ==
    [][(req = Idle /\ req'.op = "update_document" /\ resp'.status = 500)
          => store' = store]_vars

----------------------------------------------------------------------------
(* main.py: lifespan and GET /health                                       *)

(* The application object before its lifespan is entered. *)
Created == [phase |-> "created", exc |-> "none", calls |-> <<>>]

(* What db_manager.connect() and ensure_collection_exists() can do. *)
StartupOutcomes == {"ok", "raise"}

(* lifespan up to its `yield`: connect, then ensure the collection; an     *)
(* exception of either is logged and raised again, and `finally` closes    *)
(* the connection.  `exc` names the call that raised.                      *)
lifespan_yields_on_failure(connect, ensure) ==
    IF connect # "ok"
    THEN [phase |-> "serving", exc |-> "connect", calls |-> <<"connect">>]
    ELSE IF ensure # "ok"
    THEN [phase |-> "serving", exc |-> "ensure_collection_exists",
          calls |-> <<"connect", "ensure_collection_exists">>]
    ELSE Serving

lifespan(connect, ensure) ==
    IF connect # "ok"
    THEN [phase |-> "aborted", exc |-> "connect", calls |-> <<"connect", "close">>]
    ELSE IF ensure # "ok"
    THEN [phase |-> "aborted", exc |-> "ensure_collection_exists",
          calls |-> <<"connect", "ensure_collection_exists", "close">>]
    ELSE Serving

(* lifespan after its `yield`: `finally` closes the connection. *)
lifespan_exit(application) ==
    [application EXCEPT !.phase = "stopped", !.calls = Append(@, "close")]

Startup ==
    /\ app.phase = "created"
    /\ \E connect \in StartupOutcomes, ensure \in StartupOutcomes :
          app' = lifespan(connect, ensure)
    /\ UNCHANGED <<store, settings, req, resp, calls, temp_files, central>>

(* The server shuts down once no request is being handled. *)
Shutdown ==
    /\ app.phase = "serving"
    /\ req = Idle
    /\ app' = lifespan_exit(app)
    /\ UNCHANGED <<store, settings, req, resp, calls, temp_files, central>>

(* GET /health: 503 unless the client of the database is connected. *)
health_check(connected) ==
    IF ~connected THEN Response(503, "Database service unavailable", <<>>)
    ELSE Response(200, "healthy", <<>>)

(* The server takes requests between the startup and the shutdown of its   *)
(* lifespan only.                                                          *)
HealthCheck ==
    /\ app.phase = "serving"
    /\ req = Idle
    /\ \E connected \in BOOLEAN :
          /\ req' = [op |-> "health_check", connected |-> connected]
          /\ resp' = health_check(connected)
    /\ calls' = <<>>
    /\ UNCHANGED <<store, settings, temp_files, app, central>>

ServeDocuments ==
    /\ app.phase = "serving"
    /\ GetDocuments

InitLifespan ==
    /\ \E shape \in LibraryShapes : store = LibraryObjects(shape)
    /\ settings \in [DEFAULT_SEARCH_LIMIT : {2}, DEFAULT_SIMILARITY_THRESHOLD : {7}]
    /\ req = Idle
    /\ resp = NoResponse
    /\ calls = <<>>
    /\ temp_files = {}
    /\ app = Created
    /\ CentralAtRest

NextLifespan == Startup \/ HealthCheck \/ ServeDocuments \/ Reply \/ Shutdown

SpecLifespan == InitLifespan /\ [][NextLifespan]_vars

(* The connection was closed, once, and nothing was called after that. *)
ClosedLast(application) ==
    /\ application.calls # <<>>
    /\ application.calls[Len(application.calls)] = "close"
    /\ Cardinality({k \in DOMAIN application.calls : application.calls[k] = "close"}) = 1

(* C22: a request is served only after connect and                         *)
(* ensure_collection_exists have both succeeded; when either raises the    *)
(* startup aborts with that error and no request is ever served; whenever  *)
(* the lifespan has ended, aborted or shut down, the connection has been   *)
(* closed.                                                                 *)
C22_ServesOnlyAfterStartup ==
    [][/\ req' # Idle => app' = Serving
       /\ (app.phase = "created" /\ app'.phase # "created")
            => \/ app' = Serving
               \/ /\ app'.phase = "aborted"
                  /\ app'.exc \in {"connect", "ensure_collection_exists"}
                  /\ req' = Idle
       /\ app.phase = "aborted" => (app' = app /\ req' = Idle)
       /\ app'.phase \in {"aborted", "stopped"} => ClosedLast(app')]_vars

(* The connection succeeded, the collection could not be ensured: the      *)
(* startup aborted and closed the connection.                              *)
C22_Witness ==
    /\ app.phase = "aborted"
    /\ app.exc = "ensure_collection_exists"
    /\ app.calls = <<"connect", "ensure_collection_exists", "close">>
    /\ req = Idle

----------------------------------------------------------------------------
(* Central server: the visualization state of a user                       *)
(* (routers/visualization.py, crud/visualization.py)                       *)

(* A row of user_visualization_state with its views (the ViewId of each,   *)
(* in the order they were saved).                                          *)
StateRow(user_id, current_view_index, max_views, views) ==
    [UserId |-> user_id, CurrentViewIndex |-> current_view_index,
     MaxViews |-> max_views, views |-> views]

StatesOf(rows, user_id) == {row \in rows : row.UserId = user_id}

ViewIdsOf(rows) == UNION {Range(row.views) : row \in rows}

DefaultMaxViews == 10

(* The state returned for a user without a row. *)
EmptyState == [currentViewIndex |-> 0, views |-> <<>>, maxViews |-> DefaultMaxViews]

(* visualization_view.ViewId is unique: the insert of a view whose id is   *)
(* already in the table, or earlier in the same request, fails.            *)
ViewIdsClash(kept, views) ==
    \/ \E k \in DOMAIN views : views[k] \in ViewIdsOf(kept)
    \/ \E j, k \in DOMAIN views : j # k /\ views[j] = views[k]

get_user_visualization_state(user_id) ==
    LET found == StatesOf(visualization, user_id)
    IN  IF Cardinality(found) > 1
        THEN [exc |-> "MultipleResultsFound", ret |-> EmptyState]
        ELSE IF found = {}
        THEN [exc |-> "none", ret |-> EmptyState]
        ELSE LET state == CHOOSE row \in found : TRUE
             IN  [exc |-> "none",
                  ret |-> [currentViewIndex |-> state.CurrentViewIndex,
                           views |-> state.views, maxViews |-> state.MaxViews]]

(* The row of the user is created or overwritten, its views are deleted    *)
(* and the views of the request inserted; only the commit at the end makes *)
(* any of it last.                                                         *)
save_user_visualization_state_keeps_views(user_id, state_data) ==
    LET found == StatesOf(visualization, user_id)
        kept == visualization \ found
        old == IF found = {} THEN <<>> ELSE (CHOOSE row \in found : TRUE).views
    IN  IF Cardinality(found) > 1
        THEN [exc |-> "MultipleResultsFound", rows |-> visualization, viewCount |-> 0]
        ELSE IF ViewIdsClash(kept, old \o state_data.views)
        THEN [exc |-> "IntegrityError", rows |-> visualization, viewCount |-> 0]
        ELSE [exc |-> "none",
              rows |-> kept \cup {StateRow(user_id, state_data.currentViewIndex,
                                           state_data.maxViews, old \o state_data.views)},
              viewCount |-> Len(state_data.views)]

save_user_visualization_state(user_id, state_data) ==
    LET found == StatesOf(visualization, user_id)
        kept == visualization \ found
    IN  IF Cardinality(found) > 1
        THEN [exc |-> "MultipleResultsFound", rows |-> visualization, viewCount |-> 0]
        ELSE IF ViewIdsClash(kept, state_data.views)
        THEN [exc |-> "IntegrityError", rows |-> visualization, viewCount |-> 0]
        ELSE [exc |-> "none",
              rows |-> kept \cup {StateRow(user_id, state_data.currentViewIndex,
                                           state_data.maxViews, state_data.views)},
              viewCount |-> Len(state_data.views)]

delete_user_visualization_state(user_id) ==
    LET found == StatesOf(visualization, user_id)
    IN  IF Cardinality(found) > 1
        THEN [exc |-> "MultipleResultsFound", rows |-> visualization, ret |-> FALSE]
        ELSE IF found = {}
        THEN [exc |-> "none", rows |-> visualization, ret |-> FALSE]
        ELSE [exc |-> "none", rows |-> visualization \ found, ret |-> TRUE]

(* POST /visualization/state *)
save_visualization_state(user_id, state_data) ==
    IF Len(state_data.views) > state_data.maxViews
    THEN [resp |-> Response(400, "Number of views exceeds maxViews", <<>>),
          rows |-> visualization]
    ELSE LET result == save_user_visualization_state(user_id, state_data)
         IN  IF result.exc # "none"
             THEN [resp |-> Response(500, "Failed to save visualization state", <<>>),
                   rows |-> result.rows]
             ELSE [resp |-> Response(200, "Visualization state saved successfully",
                                     <<state_data.currentViewIndex, result.viewCount>>),
                   rows |-> result.rows]

(* DELETE /visualization/state *)
delete_visualization_state(user_id) ==
    LET deleted == delete_user_visualization_state(user_id)
    IN  IF deleted.exc # "none"
        THEN [resp |-> Response(500, "Failed to delete visualization state", <<>>),
              rows |-> deleted.rows]
        ELSE IF ~deleted.ret
        THEN [resp |-> Response(404, "No visualization state found", <<>>),
              rows |-> deleted.rows]
        ELSE [resp |-> Response(204, "", <<>>), rows |-> deleted.rows]

(* The users and the requests of the model. *)
UserIds == {1, 2}
ViewIds == {"v1", "v2", "v3"}
ViewLists == UNION {[1..n -> ViewIds] : n \in 0..MaxViewCount}
MaxViewsSent == (0..MaxViewCount) \cup {DefaultMaxViews}

SaveVisualizationState ==
    /\ req = Idle
    /\ \E user_id \in UserIds, views \in ViewLists, maxViews \in MaxViewsSent :
          LET state_data == [currentViewIndex |-> 0, views |-> views, maxViews |-> maxViews]
              out == save_visualization_state(user_id, state_data)
          IN  /\ req' = [op |-> "save_visualization_state", user_id |-> user_id,
                         views |-> views, maxViews |-> maxViews]
              /\ resp' = out.resp
              /\ visualization' = out.rows
    /\ calls' = <<>>
    /\ UNCHANGED <<rag, redis, redis_client, mailbox, users>>

DeleteVisualizationState ==
    /\ req = Idle
    /\ \E user_id \in UserIds :
          LET out == delete_visualization_state(user_id)
          IN  /\ req' = [op |-> "delete_visualization_state", user_id |-> user_id]
              /\ resp' = out.resp
              /\ visualization' = out.rows
    /\ calls' = <<>>
    /\ UNCHANGED <<rag, redis, redis_client, mailbox, users>>

(* GET /visualization/state *)
GetVisualizationState ==
    /\ req = Idle
    /\ \E user_id \in UserIds :
          LET state == get_user_visualization_state(user_id)
          IN  /\ req' = [op |-> "get_visualization_state", user_id |-> user_id]
              /\ resp' = IF state.exc # "none"
                         THEN Response(500, "Failed to retrieve visualization state", <<>>)
                         ELSE Response(200, "", <<state.ret>>)
    /\ calls' = <<>>
    /\ UNCHANGED <<rag, central>>

InitVisualization ==
    /\ store = <<>>
    /\ settings \in [DEFAULT_SEARCH_LIMIT : {2}, DEFAULT_SIMILARITY_THRESHOLD : {7}]
    /\ req = Idle
    /\ resp = NoResponse
    /\ calls = <<>>
    /\ temp_files = {}
    /\ app = Serving
    /\ CentralAtRest

NextVisualization ==
    SaveVisualizationState \/ DeleteVisualizationState \/ GetVisualizationState \/ Reply

SpecVisualization == InitVisualization /\ [][NextVisualization]_vars

(* C26: a save with more views than its maxViews is answered 400 and       *)
(* leaves the table as it was; a save that is accepted leaves the user     *)
(* with exactly the views of the request, under its maxViews, and the      *)
(* other users as they were; so each user has at most one state, whose     *)
(* views are never more than its MaxViews.                                 *)
C26_ViewsWithinMaxViews ==
    [][/\ (req = Idle /\ req'.op = "save_visualization_state"
              /\ Len(req'.views) > req'.maxViews)
           => /\ resp'.status = 400
              /\ visualization' = visualization
       /\ (req = Idle /\ req'.op = "save_visualization_state" /\ resp'.status = 200)
           => /\ StatesOf(visualization', req'.user_id)
                    = {StateRow(req'.user_id, 0, req'.maxViews, req'.views)}
              /\ visualization' \ StatesOf(visualization', req'.user_id)
                    = visualization \ StatesOf(visualization, req'.user_id)
       /\ \A user_id \in UserIds :
              Cardinality(StatesOf(visualization', user_id)) <= 1
       /\ \A row \in visualization' : Len(row.views) <= row.MaxViews]_vars

(* A save of two views under a maxViews of one was rejected while the user *)
(* had a state with a view, and that state is still there.                 *)
C26_Witness ==
    /\ req.op = "save_visualization_state"
    /\ resp.status = 400
    /\ Len(req.views) = 2
    /\ req.maxViews = 1
    /\ \E row \in StatesOf(visualization, req.user_id) : Len(row.views) = 1

----------------------------------------------------------------------------
(* Central server: the Redis client (core/redis_config.py)                 *)

(* A dict: the keys that are set, each with its value. *)
Set(db, key, value) == (key :> value) @@ db
Delete(db, key) == [k \in DOMAIN db \ {key} |-> db[k]]
Exists(db, key) == key \in DOMAIN db

(* Redis.from_url gives a client without connecting; `pinged` tells        *)
(* whether the client has answered a ping.                                 *)
FromUrl == [fn |-> "Redis.from_url"]
Ping(answered) == [fn |-> "ping", answered |-> answered]

(* get_redis_client, called while the Redis server is `up` or not: the     *)
(* exception raised, the client returned, the module-level client after    *)
(* the call and the calls made.                                            *)
get_redis_client(up) ==
    IF redis_client = None
    THEN IF up
         THEN [exc |-> "none", client |-> Some([pinged |-> TRUE]),
               global |-> Some([pinged |-> TRUE]), calls |-> <<FromUrl, Ping(TRUE)>>]
         ELSE [exc |-> "RuntimeError", client |-> None,
               global |-> Some([pinged |-> FALSE]), calls |-> <<FromUrl, Ping(FALSE)>>]
    ELSE [exc |-> "none", client |-> redis_client, global |-> redis_client, calls |-> <<>>]

(* A command sent through a client while the server is down raises. *)
Command(fn, key, up) == [fn |-> fn, key |-> key, raised |-> ~up]

----------------------------------------------------------------------------
(* Central server: refresh tokens (services/authentication_service.py)     *)

JTI_PREFIX == "refresh_token:jti:"

(* f"{{ {JTI_PREFIX}{jti} }}" and f"{JTI_PREFIX}{jti}" *)
SavedJtiKey(jti) == <<"{ ", JTI_PREFIX, jti, " }">>
JtiKey(jti) == <<JTI_PREFIX, jti>>

(* The outcome of a call: the exception raised, the value returned, the    *)
(* store and the module-level client after it, the calls made.             *)
Outcome(exc, ret, db, client, made) ==
    [exc |-> exc, ret |-> ret, redis |-> db, redis_client |-> client, calls |-> made]

save_refresh_token_jti(jti, user_id, up) ==
    LET key == SavedJtiKey(jti)
        got == get_redis_client(up)
    IN  IF got.exc # "none"
        THEN Outcome(got.exc, <<>>, redis, got.global, got.calls)
        ELSE IF ~up
        THEN Outcome("ConnectionError", <<>>, redis, got.global,
                     got.calls \o <<Command("setex", key, up)>>)
        ELSE Outcome("none", <<TRUE>>, Set(redis, key, user_id), got.global,
                     got.calls \o <<Command("setex", key, up)>>)

(* The tokens are made, the jti is saved, the tokens are returned. *)
create_access_token_and_refresh_token(user_id, jti, up) ==
    LET saved == save_refresh_token_jti(jti, user_id, up)
    IN  IF saved.exc # "none" THEN saved
        ELSE [saved EXCEPT !.ret = <<[sub |-> user_id, jti |-> jti]>>]

(* is_jti_exists and revoke_refresh_token are handed a client by their     *)
(* caller.                                                                 *)
is_jti_exists(jti, up) ==
    LET key == JtiKey(jti)
        got == get_redis_client(up)
    IN  IF got.exc # "none"
        THEN Outcome(got.exc, <<>>, redis, got.global, got.calls)
        ELSE IF ~up
        THEN Outcome("ConnectionError", <<>>, redis, got.global,
                     got.calls \o <<Command("exists", key, up)>>)
        ELSE Outcome("none", <<Exists(redis, key)>>, redis, got.global,
                     got.calls \o <<Command("exists", key, up)>>)

revoke_refresh_token(jti, up) ==
    LET key == JtiKey(jti)
        got == get_redis_client(up)
    IN  IF got.exc # "none"
        THEN Outcome(got.exc, <<>>, redis, got.global, got.calls)
        ELSE IF ~up
        THEN Outcome("ConnectionError", <<>>, redis, got.global,
                     got.calls \o <<Command("delete", key, up)>>)
        ELSE Outcome("none", <<Exists(redis, key)>>, Delete(redis, key), got.global,
                     got.calls \o <<Command("delete", key, up)>>)

(* What a call answers: 200 with the value returned, 500 on an exception. *)
Answer(out) ==
    IF out.exc # "none" THEN Response(500, out.exc, <<>>)
    ELSE Response(200, "", out.ret)

(* The identifiers uuid4 can draw and the users that log in. *)
Jtis == {"j1", "j2"}
TokenUsers == {"1", "2"}

(* uuid4 draws an identifier that is not in use. *)
Unused(jti) ==
    /\ ~Exists(redis, SavedJtiKey(jti))
    /\ ~Exists(redis, JtiKey(jti))

CreateAccessTokenAndRefreshToken ==
    /\ req = Idle
    /\ \E user_id \in TokenUsers, jti \in Jtis, up \in BOOLEAN :
          LET out == create_access_token_and_refresh_token(user_id, jti, up)
          IN  /\ Unused(jti)
              /\ req' = [op |-> "create_access_token_and_refresh_token",
                         user_id |-> user_id, jti |-> jti, up |-> up]
              /\ resp' = Answer(out)
              /\ calls' = out.calls
              /\ redis' = out.redis
              /\ redis_client' = out.redis_client
    /\ UNCHANGED <<rag, visualization, mailbox, users>>

IsJtiExists ==
    /\ req = Idle
    /\ \E jti \in Jtis, up \in BOOLEAN :
          LET out == is_jti_exists(jti, up)
          IN  /\ req' = [op |-> "is_jti_exists", jti |-> jti, up |-> up]
              /\ resp' = Answer(out)
              /\ calls' = out.calls
              /\ redis' = out.redis
              /\ redis_client' = out.redis_client
    /\ UNCHANGED <<rag, visualization, mailbox, users>>

RevokeRefreshToken ==
    /\ req = Idle
    /\ \E jti \in Jtis, up \in BOOLEAN :
          LET out == revoke_refresh_token(jti, up)
          IN  /\ req' = [op |-> "revoke_refresh_token", jti |-> jti, up |-> up]
              /\ resp' = Answer(out)
              /\ calls' = out.calls
              /\ redis' = out.redis
              /\ redis_client' = out.redis_client
    /\ UNCHANGED <<rag, visualization, mailbox, users>>

(* Every key is set with a time to live: between two requests a key can    *)
(* expire.                                                                 *)
Expire ==
    /\ req = Idle
    /\ \E key \in DOMAIN redis : redis' = Delete(redis, key)
    /\ UNCHANGED <<rag, req, resp, calls, visualization, redis_client, mailbox, users>>

InitTokens ==
    /\ store = <<>>
    /\ settings \in [DEFAULT_SEARCH_LIMIT : {2}, DEFAULT_SIMILARITY_THRESHOLD : {7}]
    /\ req = Idle
    /\ resp = NoResponse
    /\ calls = <<>>
    /\ temp_files = {}
    /\ app = Serving
    /\ CentralAtRest

NextTokens ==
    CreateAccessTokenAndRefreshToken \/ IsJtiExists \/ RevokeRefreshToken \/ Expire \/ Reply

SpecTokens == InitTokens /\ [][NextTokens]_vars

(* C28: the jti of a refresh token that has just been issued exists for    *)
(* is_jti_exists, under the key revoke_refresh_token deletes; and once it  *)
(* is revoked no key of the jti is left in the store.                      *)
C28_IssuedJtiExistsUntilRevoked ==
    [][/\ (req = Idle /\ req'.op = "create_access_token_and_refresh_token"
              /\ resp'.status = 200)
           => Exists(redis', JtiKey(req'.jti))
       /\ (req = Idle /\ req'.op = "is_jti_exists" /\ resp'.status = 200
              /\ Exists(redis, SavedJtiKey(req'.jti)))
           => resp'.body = <<TRUE>>
       /\ (req = Idle /\ req'.op = "revoke_refresh_token" /\ resp'.status = 200)
           => /\ ~Exists(redis', JtiKey(req'.jti))
              /\ ~Exists(redis', SavedJtiKey(req'.jti))]_vars

(* C29: a call of get_redis_client that returns a client (the request     *)
(* does not end with its RuntimeError) returns one that has answered a     *)
(* ping, also after a call whose ping failed; and once there is a client   *)
(* no other is created.                                                    *)
C29_OnlyPingedClientHandedOut ==
    [][/\ (req = Idle /\ req' # Idle /\ resp'.detail # "RuntimeError")
           => /\ redis_client' # None
              /\ Val(redis_client').pinged
       /\ (req = Idle /\ req' # Idle /\ redis_client # None)
           => \A k \in DOMAIN calls' : calls'[k].fn # "Redis.from_url"]_vars

----------------------------------------------------------------------------
(* Central server: verification of the e-mail address                      *)
(* (services/authentication_service.py, routers/users.py, crud/user.py)    *)

VerificationKey(email) == <<"verification:", email>>
VerifiedKey(email) == <<"verified:", email>>

(* create_token({"email": email}): the token of an address depends on the  *)
(* time it is made at; `issued` counts the tokens of the address.          *)
VerificationToken(email, issued) == [email |-> email, issued |-> issued, forged |-> FALSE]
ForgedToken(email) == [email |-> email, issued |-> 0, forged |-> TRUE]

TokensOf(email) == {token \in mailbox : token.email = email}

generate_verification_token(email, up) ==
    LET token == VerificationToken(email, Cardinality(TokensOf(email)) + 1)
        key == VerificationKey(email)
        got == get_redis_client(up)
    IN  IF got.exc # "none"
        THEN Outcome(got.exc, <<>>, redis, got.global, got.calls)
        ELSE IF ~up
        THEN Outcome("ConnectionError", <<>>, redis, got.global,
                     got.calls \o <<Command("setex", key, up)>>)
        ELSE Outcome("none", <<token>>, Set(redis, key, token), got.global,
                     got.calls \o <<Command("setex", key, up)>>)

(* verify_token: the payload of a token that was signed with the key of    *)
(* the server, HTTPException 401 on any other.                             *)
verify_token(token) ==
    IF token.forged THEN [exc |-> "HTTPException", payload |-> <<>>]
    ELSE [exc |-> "none", payload |-> <<[email |-> token.email]>>]

(* The address of the token when a code is stored for it, None otherwise;  *)
(* the stored code is deleted and the address marked as verified.          *)
verify_verification_token(token, up) ==
    LET got == get_redis_client(up)
        checked == verify_token(token)
    IN  IF got.exc # "none"
        THEN Outcome(got.exc, <<>>, redis, got.global, got.calls)
        ELSE IF checked.exc # "none"
        THEN Outcome(checked.exc, <<>>, redis, got.global, got.calls)
        ELSE LET email == Val(checked.payload).email
                 key == VerificationKey(email)
             IN  IF ~up
                 THEN Outcome("ConnectionError", <<>>, redis, got.global,
                              got.calls \o <<Command("get", key, up)>>)
                 ELSE IF Exists(redis, key)
                 THEN Outcome("none", <<email>>,
                              Set(Delete(redis, key), VerifiedKey(email), "true"),
                              got.global,
                              got.calls \o <<Command("get", key, up),
                                             Command("delete", key, up),
                                             Command("set", VerifiedKey(email), up)>>)
                 ELSE Outcome("none", None, redis, got.global,
                              got.calls \o <<Command("get", key, up)>>)

(* The table of users: the registered addresses and whether each is       *)
(* active.                                                                 *)
Registered(email) == email \in DOMAIN users

(* _send_verification_email_logic: nothing is sent to an active user; any  *)
(* other address is sent a new token.                                      *)
send_verification_email_logic(table, email, up) ==
    IF email \in DOMAIN table /\ table[email].IsActive
    THEN [exc |-> "none", success |-> FALSE, redis |-> redis,
          redis_client |-> redis_client, calls |-> <<>>, mailbox |-> mailbox]
    ELSE LET made == generate_verification_token(email, up)
         IN  [exc |-> made.exc, success |-> made.exc = "none", redis |-> made.redis,
              redis_client |-> made.redis_client, calls |-> made.calls,
              mailbox |-> IF made.exc = "none" THEN mailbox \cup {Val(made.ret)}
                          ELSE mailbox]

(* GET /users/verify-email *)
verfiy_code(token, up) ==
    LET verified == verify_verification_token(token, up)
        seen == <<[fn |-> "verify_verification_token", ret |-> verified.ret,
                   exc |-> verified.exc]>>
        out == [resp |-> NoResponse, redis |-> verified.redis,
                redis_client |-> verified.redis_client,
                calls |-> seen \o verified.calls, users |-> users]
    IN  IF verified.exc = "HTTPException"
        THEN [out EXCEPT !.resp = Response(401, "Could not validate credentials.", <<>>)]
        ELSE IF verified.exc # "none"
        THEN [out EXCEPT !.resp = Response(500, "Internal Server Error", <<>>)]
        ELSE IF verified.ret = None
        THEN [out EXCEPT !.resp = Response(400, "invalid or expired link", <<>>)]
        ELSE LET email == Val(verified.ret)
             IN  IF ~Registered(email)
                 THEN [out EXCEPT !.resp = Response(404, "User not found", <<>>)]
                 ELSE IF users[email].IsActive
                 THEN [out EXCEPT !.resp = Response(400, "already verified", <<>>)]
                 ELSE [out EXCEPT !.resp = Response(200, "verified", <<>>),
                                  !.users = [users EXCEPT ![email].IsActive = TRUE]]

Emails == {"a", "b"}

(* No more than MaxTokens tokens are made for an address. *)
CanSend(email) == Cardinality(TokensOf(email)) < MaxTokens

(* POST /users/register: the user is created inactive and sent a token;    *)
(* the commit comes last.                                                  *)
Register ==
    /\ req = Idle
    /\ \E email \in Emails, up \in BOOLEAN :
          LET created == (email :> [IsActive |-> FALSE]) @@ users
              sent == send_verification_email_logic(created, email, up)
          IN  /\ CanSend(email)
              /\ req' = [op |-> "register", email |-> email, up |-> up]
              /\ IF Registered(email)
                 THEN /\ resp' = Response(400, "Email already registered", <<>>)
                      /\ calls' = <<>>
                      /\ UNCHANGED <<redis, redis_client, mailbox, users>>
                 ELSE /\ resp' = IF sent.exc # "none"
                                 THEN Response(500, "Internal Server Error", <<>>)
                                 ELSE Response(201, "", <<>>)
                      /\ calls' = sent.calls
                      /\ redis' = sent.redis
                      /\ redis_client' = sent.redis_client
                      /\ mailbox' = sent.mailbox
                      /\ users' = IF sent.exc # "none" THEN users ELSE created
    /\ UNCHANGED <<rag, visualization>>

(* POST /users/resend-verification-email *)
SendVerificationCode ==
    /\ req = Idle
    /\ \E email \in Emails, up \in BOOLEAN :
          LET sent == send_verification_email_logic(users, email, up)
          IN  /\ CanSend(email)
              /\ req' = [op |-> "resend_verification_email", email |-> email, up |-> up]
              /\ resp' = IF sent.exc # "none"
                         THEN Response(500, "Internal Server Error", <<>>)
                         ELSE IF ~sent.success
                         THEN Response(400, "already verified", <<>>)
                         ELSE Response(200, "sent", <<>>)
              /\ calls' = sent.calls
              /\ redis' = sent.redis
              /\ redis_client' = sent.redis_client
              /\ mailbox' = sent.mailbox
    /\ UNCHANGED <<rag, visualization, users>>

(* The tokens that can be presented: those sent out and a forged one. *)
VerifyEmail ==
    /\ req = Idle
    /\ \E token \in mailbox \cup {ForgedToken("a")}, up \in BOOLEAN :
          LET out == verfiy_code(token, up)
          IN  /\ req' = [op |-> "verify_email", token |-> token, up |-> up]
              /\ resp' = out.resp
              /\ calls' = out.calls
              /\ redis' = out.redis
              /\ redis_client' = out.redis_client
              /\ users' = out.users
    /\ UNCHANGED <<rag, visualization, mailbox>>

InitVerification ==
    /\ store = <<>>
    /\ settings \in [DEFAULT_SEARCH_LIMIT : {2}, DEFAULT_SIMILARITY_THRESHOLD : {7}]
    /\ req = Idle
    /\ resp = NoResponse
    /\ calls = <<>>
    /\ temp_files = {}
    /\ app = Serving
    /\ CentralAtRest

NextVerification == Register \/ SendVerificationCode \/ VerifyEmail \/ Expire \/ Reply

SpecVerification == InitVerification /\ [][NextVerification]_vars

(* C30: verify_verification_token returns the address of a token only      *)
(* when that token is the one stored for the address, and then the stored  *)
(* token is gone: a token made before a re-send and a token presented a    *)
(* second time do not verify.                                              *)
C30_OnlyStoredTokenVerifies ==
    [][(/\ req = Idle
        /\ req'.op = "verify_email"
        /\ calls'[1].exc = "none"
        /\ calls'[1].ret # None)
          => /\ Exists(redis, VerificationKey(req'.token.email))
             /\ redis[VerificationKey(req'.token.email)] = req'.token
             /\ ~Exists(redis', VerificationKey(req'.token.email))]_vars

====
